---- MODULE Spec2Model ----
(***************************************************************************)
(* MortPion server: the match engine (models/Game.ts, models/Player.ts),   *)
(* the shared rule primitives (packages/shared/src/game-logic.ts) and the  *)
(* socket / timer handlers of apps/server/src/index.ts that drive them,    *)
(* for one room; the services ConnectionManager and TurnTimer, each        *)
(* driving that room through its public methods; and the registry of       *)
(* rooms of LobbyService.                                                  *)
(***************************************************************************)
EXTENDS Integers, Sequences, FiniteSets, TLC

VARIABLES
    game,   \* room.game : the Game object of the room
    room,   \* the Room object: players, replay vote, presence in `rooms`
    last,   \* the event by which the last handler reported what it did
    clock,  \* ms on Date.now() since the countdown in progress started:
            \* game.turnStartTime while a match is played, the opening of
            \* the replay vote (room.replayDeadline - 30 s) once it is
            \* finished; in the lobby, since the first room was made
    connectionManager,  \* the maps of a ConnectionManager
    turnTimer,          \* the maps of a TurnTimer and its setTimeout callbacks
    lobbyService,       \* the maps of a LobbyService: its rooms, each with
                        \* its game, and the room of each host
    rooms,              \* the map `rooms` of index.ts when several rooms
                        \* are followed: each room with its game
    localGame           \* the state of the hook useLocalGame of the client:
                        \* its Game, the piece selected and the error shown

vars ==
    <<game, room, last, clock, connectionManager, turnTimer, lobbyService,
      rooms, localGame>>

\* what the handlers of index.ts never touch
services == <<connectionManager, turnTimer, lobbyService>>

-----------------------------------------------------------------------------
(* Values *)

Null == "null"

SizeSet == {"P", "M", "G"}

\* const availableColors: Color[] = ['red', 'blue', 'green', 'yellow']
availableColors == <<"red", "blue", "green", "yellow">>

\* socket ids double as player ids (index.ts: new Player({ id: socket.id }))
SeatIds == <<"s1", "s2", "s3", "s4">>

\* the nickname each of them gives when it creates or joins a room
Nicknames == <<"n1", "n2", "n3", "n4">>

\* a socket that is connected to the server but seated nowhere
Stranger == "s0"

-----------------------------------------------------------------------------
(* Bounds of the exploration *)

\* rooms of 2..MaxSeats seats are explored
MaxSeats == 3

\* from a fresh match, at most MaxMoves pieces are placed
MaxMoves == 1

\* at most MaxDown seats of the room have lost their socket
MaxDown == 1

-----------------------------------------------------------------------------
(* packages/shared/src/game-logic.ts *)

createEmptyBoard == [i \in 0..8 |-> [P |-> Null, M |-> Null, G |-> Null]]

isLegalMove(board, cellIndex, size) ==
    IF cellIndex < 0 \/ cellIndex > 8 THEN FALSE
    ELSE LET cell == board[cellIndex] IN
         IF cell[size] # Null THEN FALSE
         ELSE IF size = "G" THEN cell.G = Null
         ELSE IF size = "M" THEN cell.M = Null /\ cell.G = Null
         ELSE cell.P = Null /\ cell.M = Null /\ cell.G = Null

hasLegalMoves(board, player) ==
    \E cellIndex \in 0..8 : \E size \in SizeSet :
        player.inventory[size] > 0 /\ isLegalMove(board, cellIndex, size)

\* variant: the smallest piece of the cell is the one that counts
getVisiblePiece_smallest(cell) ==
    IF cell.P # Null THEN cell.P
    ELSE IF cell.M # Null THEN cell.M
    ELSE IF cell.G # Null THEN cell.G
    ELSE Null

getVisiblePiece(cell) ==
    IF cell.G # Null THEN cell.G
    ELSE IF cell.M # Null THEN cell.M
    ELSE IF cell.P # Null THEN cell.P
    ELSE Null

lines ==
    << <<0, 1, 2>>, <<3, 4, 5>>, <<6, 7, 8>>,
       <<0, 3, 6>>, <<1, 4, 7>>, <<2, 5, 8>>,
       <<0, 4, 8>>, <<2, 4, 6>> >>

checkSameColorAlignment(board, color) ==
    \E l \in 1..Len(lines) :
        \A k \in 1..3 : getVisiblePiece(board[lines[l][k]]) = color

checkWinConditions(board, color) == checkSameColorAlignment(board, color)

isDraw(board, players) ==
    \A i \in 1..Len(players) : ~hasLegalMoves(board, players[i])

IsActive(p) == ~p.isEliminated /\ p.connected

\* index (1-based) of the player with this id in a list, 0 when absent
\* (Array.prototype.findIndex, -1 when absent)
findIndex(players, id) ==
    IF \E i \in 1..Len(players) : players[i].id = id
    THEN CHOOSE i \in 1..Len(players) :
            /\ players[i].id = id
            /\ \A j \in 1..(i - 1) : players[j].id # id
    ELSE 0

\* the id of the next player, Null when nobody is active
getNextPlayer(players, currentPlayerId) ==
    LET activePlayers == SelectSeq(players, IsActive)
        currentIndex == findIndex(activePlayers, currentPlayerId)
    IN  IF Len(activePlayers) = 0 THEN Null
        ELSE IF currentIndex = 0 THEN activePlayers[1].id
        ELSE activePlayers[(currentIndex % Len(activePlayers)) + 1].id

-----------------------------------------------------------------------------
(* apps/server/src/models/Player.ts *)

Player(id, nickname, color, connected, isHost) ==
    [ id           |-> id,
      nickname     |-> nickname,
      color        |-> color,
      inventory    |-> [P |-> 3, M |-> 3, G |-> 3],
      connected    |-> connected,
      skipsInARow  |-> 0,
      isEliminated |-> FALSE,
      isHost       |-> isHost ]

hasPiece(player, size) == player.inventory[size] > 0

\* variant: the inventory is not decremented
usePiece_keep(player, size) == player

usePiece(player, size) ==
    [player EXCEPT !.inventory[size] = @ - 1]

resetSkips(player) == [player EXCEPT !.skipsInARow = 0]

incrementSkips(player) == [player EXCEPT !.skipsInARow = @ + 1]

eliminate(player) == [player EXCEPT !.isEliminated = TRUE]

setConnected(player, connected) == [player EXCEPT !.connected = connected]

-----------------------------------------------------------------------------
(* apps/server/src/models/Game.ts *)

NewGame ==
    [ board           |-> createEmptyBoard,
      players         |-> <<>>,
      currentPlayerId |-> Null,
      status          |-> "waiting",
      winnerId        |-> Null,
      isDraw          |-> FALSE ]

\* randomIndex is the value of Math.floor(Math.random() * players.length) + 1
initialize(g, players, randomIndex) ==
    LET copies == [i \in 1..Len(players) |->
                      Player(players[i].id, players[i].nickname,
                             availableColors[i], players[i].connected,
                             players[i].isHost)]
    IN  [ g EXCEPT !.players         = copies,
                   !.board           = createEmptyBoard,
                   !.currentPlayerId = copies[randomIndex].id,
                   !.status          = "playing",
                   !.winnerId        = Null,
                   !.isDraw          = FALSE ]

getCurrentPlayer(g) ==
    IF g.currentPlayerId = Null THEN 0
    ELSE findIndex(g.players, g.currentPlayerId)

\* variant: the turn is not checked
isValidMove_anyTurn(g, playerId, cellIndex, size) ==
    LET i == findIndex(g.players, playerId) IN
    IF g.status # "playing" THEN FALSE
    ELSE IF i = 0 \/ g.players[i].isEliminated THEN FALSE
    ELSE IF ~hasPiece(g.players[i], size) THEN FALSE
    ELSE isLegalMove(g.board, cellIndex, size)

isValidMove(g, playerId, cellIndex, size) ==
    LET i == findIndex(g.players, playerId) IN
    IF g.status # "playing" THEN FALSE
    ELSE IF g.currentPlayerId # playerId THEN FALSE
    ELSE IF i = 0 \/ g.players[i].isEliminated THEN FALSE
    ELSE IF ~hasPiece(g.players[i], size) THEN FALSE
    ELSE isLegalMove(g.board, cellIndex, size)

getActivePlayers(g) == SelectSeq(g.players, IsActive)

RECURSIVE moveToNextPlayer(_)

\* variant: the draw branch sets isDraw and forgets the status
moveToNextPlayer_drawKeepsPlaying(g) ==
    LET activePlayers == getActivePlayers(g)
        HasMoves(p) == hasLegalMoves(g.board, p)
        playersWithMoves == SelectSeq(activePlayers, HasMoves)
        nextPlayer == getNextPlayer(g.players, g.currentPlayerId)
        n == findIndex(g.players, nextPlayer)
    IN  IF Len(activePlayers) = 0
        THEN [g EXCEPT !.status = "finished"]
        ELSE IF Len(playersWithMoves) = 0
        THEN [g EXCEPT !.isDraw = TRUE]
        ELSE IF nextPlayer = Null
        THEN [g EXCEPT !.status = "finished"]
        ELSE IF ~hasLegalMoves(g.board, g.players[n])
        THEN moveToNextPlayer(
                [g EXCEPT !.currentPlayerId = nextPlayer,
                          !.players[n] = incrementSkips(@)])
        ELSE [g EXCEPT !.currentPlayerId = nextPlayer]

moveToNextPlayer(g) ==
    LET activePlayers == getActivePlayers(g)
        HasMoves(p) == hasLegalMoves(g.board, p)
        playersWithMoves == SelectSeq(activePlayers, HasMoves)
        nextPlayer == getNextPlayer(g.players, g.currentPlayerId)
        n == findIndex(g.players, nextPlayer)
    IN  IF Len(activePlayers) = 0
        THEN [g EXCEPT !.status = "finished"]
        ELSE IF Len(playersWithMoves) = 0
        THEN [g EXCEPT !.isDraw = TRUE, !.status = "finished"]
        ELSE IF nextPlayer = Null
        THEN [g EXCEPT !.status = "finished"]
        ELSE IF ~hasLegalMoves(g.board, g.players[n])
        THEN moveToNextPlayer(
                [g EXCEPT !.currentPlayerId = nextPlayer,
                          !.players[n] = incrementSkips(@)])
        ELSE [g EXCEPT !.currentPlayerId = nextPlayer]

\* the result of Game.applyMove: the value returned and the game afterwards
applyMove(g, playerId, cellIndex, size) ==
    IF ~isValidMove(g, playerId, cellIndex, size)
    THEN [ok |-> FALSE, game |-> g]
    ELSE
      LET i  == findIndex(g.players, playerId)
          g1 == [g EXCEPT !.board[cellIndex][size] = g.players[i].color,
                          !.players[i] = resetSkips(usePiece(@, size))]
      IN  IF checkWinConditions(g1.board, g1.players[i].color)
          THEN [ok |-> TRUE,
                game |-> [g1 EXCEPT !.status = "finished",
                                    !.winnerId = playerId]]
          ELSE IF isDraw(g1.board, g1.players)
          THEN [ok |-> TRUE,
                game |-> [g1 EXCEPT !.status = "finished",
                                    !.isDraw = TRUE]]
          ELSE [ok |-> TRUE, game |-> moveToNextPlayer(g1)]

checkGameEnd(g) ==
    LET activePlayers == getActivePlayers(g) IN
    IF Len(activePlayers) < 2
    THEN IF Len(activePlayers) = 1
         THEN [g EXCEPT !.status = "finished",
                        !.winnerId = activePlayers[1].id]
         ELSE [g EXCEPT !.status = "finished"]
    ELSE g

\* variant: elimination at 3 skips
skipAndEliminate_atThree(player) ==
    LET p == incrementSkips(player) IN
    IF p.skipsInARow >= 3 THEN eliminate(p) ELSE p

\* the skip counter is incremented, and the player eliminated at 2 skips
skipAndEliminate(player) ==
    LET p == incrementSkips(player) IN
    IF p.skipsInARow >= 2 THEN eliminate(p) ELSE p

skipCurrentPlayer(g) ==
    IF g.status # "playing" \/ g.currentPlayerId = Null THEN g
    ELSE LET c == getCurrentPlayer(g) IN
         IF c = 0 THEN moveToNextPlayer(g)
         ELSE moveToNextPlayer([g EXCEPT !.players[c] = skipAndEliminate(@)])

\* the result of Game.skipTurn: the value returned and the game afterwards
skipTurn(g) ==
    IF g.status # "playing" \/ g.currentPlayerId = Null
    THEN [ok |-> FALSE, game |-> g]
    ELSE LET c == getCurrentPlayer(g) IN
         IF c = 0 THEN [ok |-> FALSE, game |-> g]
         ELSE [ok |-> TRUE,
               game |-> checkGameEnd(moveToNextPlayer(
                            [g EXCEPT !.players[c] = skipAndEliminate(@)]))]

-----------------------------------------------------------------------------
(* apps/server/src/models/Room.ts *)

NoVotes == [x \in {} |-> TRUE]

\* 60 * 60 * 1000 ms
ROOM_TTL == 3600000

\* Room.addPlayer gives the n-th seat to join an untouched room the n-th
\* colour of the palette.  The room was made for n seats by the first of
\* them; the seat that holds the host role is the first one still
\* connected (socket.on('disconnect') hands the role on while the room
\* waits).  Instant 0 is the start of the match, which resets the TTL.
NewRoom(n, conn) ==
    LET host == IF \E k \in 1..n : conn[k]
                THEN CHOOSE i \in 1..n :
                        conn[i] /\ \A j \in 1..(i - 1) : ~conn[j]
                ELSE 1
    IN  [ players        |-> [i \in 1..n |->
                                Player(SeatIds[i], Nicknames[i],
                                       availableColors[i], conn[i], i = host)],
          capacity       |-> n,
          hostId         |-> SeatIds[host],
          createdAt      |-> 0,
          expiresAt      |-> ROOM_TTL,
          replayVotes    |-> NoVotes,
          replayDeadline |-> Null,
          exists         |-> TRUE ]

\* the deadline is Date.now() + 30 s; the model keeps that it is set
startReplayVoting(r) ==
    [r EXCEPT !.replayVotes = NoVotes, !.replayDeadline = "set"]

getPlayer(r, playerId) == findIndex(r.players, playerId)

\* new Room(options) at instant now: no seat yet, a Game not yet started
Room(capacity, hostId, now) ==
    [ players        |-> <<>>,
      capacity       |-> capacity,
      hostId         |-> hostId,
      createdAt      |-> now,
      expiresAt      |-> now + ROOM_TTL,
      replayVotes    |-> NoVotes,
      replayDeadline |-> Null,
      exists         |-> TRUE ]

resetTTL(r, now) == [r EXCEPT !.expiresAt = now + ROOM_TTL]

hasExpired(r, now) == now > r.expiresAt

isFull(r) == Len(r.players) >= r.capacity

\* variant: the expiry of the room is left as it was
startGame_keepsExpiry(st, now, randomIndex) ==
    [ room |-> st.room,
      game |-> initialize(st.game, st.room.players, randomIndex) ]

\* Room.startGame on the room st.room and its game st.game
startGame(st, now, randomIndex) ==
    [ room |-> resetTTL(st.room, now),
      game |-> initialize(st.game, st.room.players, randomIndex) ]

\* variant: the seat gets the colour of its place in the list
addPlayer_colorByIndex(st, id, nickname, connected, now, randomIndex) ==
    LET r == st.room
        roomPlayer == Player(id, nickname,
                             availableColors[Len(r.players) + 1], connected,
                             id = r.hostId)
        st1 == [st EXCEPT !.room.players = Append(@, roomPlayer)]
    IN  IF Len(r.players) >= r.capacity \/ findIndex(r.players, id) # 0
        THEN [ok |-> FALSE, room |-> st.room, game |-> st.game]
        ELSE IF Len(st1.room.players) = r.capacity
        THEN [ok |-> TRUE] @@ startGame(st1, now, randomIndex)
        ELSE [ok |-> TRUE, room |-> st1.room, game |-> st1.game]

\* Room.addPlayer of new Player({id, nickname, connected}) on the room
\* st.room and its game st.game: whether the seat was added, and both
\* afterwards
addPlayer(st, id, nickname, connected, now, randomIndex) ==
    LET r == st.room
        usedColors == {r.players[i].color : i \in 1..Len(r.players)}
        free == {k \in 1..Len(availableColors) :
                    availableColors[k] \notin usedColors}
        availableColor == availableColors[CHOOSE k \in free :
                                             \A l \in free : k <= l]
        roomPlayer == Player(id, nickname, availableColor, connected,
                             id = r.hostId)
        st1 == [st EXCEPT !.room.players = Append(@, roomPlayer)]
    IN  IF Len(r.players) >= r.capacity \/ findIndex(r.players, id) # 0
           \/ free = {}
        THEN [ok |-> FALSE, room |-> st.room, game |-> st.game]
        ELSE IF Len(st1.room.players) = r.capacity
        THEN [ok |-> TRUE] @@ startGame(st1, now, randomIndex)
        ELSE [ok |-> TRUE, room |-> st1.room, game |-> st1.game]

\* variant: the last seat of the list becomes the host
transferHost_latest(r) ==
    IF Len(r.players) = 0 THEN r
    ELSE [r EXCEPT !.players = [i \in 1..Len(@) |->
                                   [@[i] EXCEPT !.isHost = (i = Len(r.players))]],
                   !.hostId = r.players[Len(r.players)].id]

\* Room.transferHost: the first seat of the list becomes the host
transferHost(r) ==
    IF Len(r.players) = 0 THEN r
    ELSE [r EXCEPT !.players = [i \in 1..Len(@) |->
                                   [@[i] EXCEPT !.isHost = (i = 1)]],
                   !.hostId = r.players[1].id]

\* Room.transferHostTo
transferHostTo(r, playerId) ==
    IF findIndex(r.players, playerId) = 0 THEN r
    ELSE [r EXCEPT !.players = [i \in 1..Len(@) |->
                                   [@[i] EXCEPT !.isHost =
                                       (r.players[i].id = playerId)]],
                   !.hostId = playerId]

\* Room.removePlayer, the room afterwards; on a room whose match is being
\* played the method goes on to game.checkGameEnd()
removePlayer(r, playerId) ==
    LET playerIndex == findIndex(r.players, playerId)
        r1 == [r EXCEPT !.players = SelectSeq(@, LAMBDA p : p.id # playerId)]
    IN  IF playerIndex = 0 THEN r
        ELSE IF r.players[playerIndex].isHost /\ Len(r1.players) > 0
        THEN transferHost(r1)
        ELSE r1

-----------------------------------------------------------------------------
(* apps/server/src/services : the services as constructed *)

\* new ConnectionManager(lobbyService): no connection, nobody to reconnect
NoManager ==
    [connections |-> {}, joined |-> {},
     disconnectedPlayers |-> [x \in {} |-> 0]]

\* new TurnTimer(): no timer state, no setTimeout callback pending
NoTimer ==
    [timerStates |-> Null, startTime |-> 0, timers |-> {}, warnings |-> {}]

\* new LobbyService(): no room
NoLobby == [rooms |-> [x \in {} |-> x], roomsByHost |-> [x \in {} |-> x]]

\* const rooms = new Map<string, Room>()
NoRooms == [x \in {} |-> x]

\* useState<LocalGameState>({game: null, players: [], selectedPiece: null,
\* error: null}); the hook answers 'waiting' for the status of no game
NoLocalGame ==
    [game          |-> [status |-> "waiting"],
     players       |-> <<>>,
     selectedPiece |-> [size |-> Null, color |-> Null],
     error         |-> Null]

-----------------------------------------------------------------------------
(* apps/server/src/index.ts : the handlers, for the one room *)

Seated == {SeatIds[i] : i \in 1..MaxSeats}

Sockets == Seated \cup {Stranger}

\* a socket emits only while it is connected
SocketIsUp(pid) ==
    \/ pid = Stranger
    \/ /\ getPlayer(room, pid) # 0
       /\ room.players[getPlayer(room, pid)].connected

\* socket.on('make-move'): 'move-error' to the sender, or 'game-updated'
\* with lastMove = {playerId, cellIndex, size} to the room
MakeMove(pid, cellIndex, size) ==
    /\ SocketIsUp(pid)
    /\ IF ~room.exists \/ game.status # "playing"
       THEN /\ last' = [event |-> "move-error"]
            /\ UNCHANGED <<game, room>>
       ELSE LET r == applyMove(game, pid, cellIndex, size) IN
            IF ~r.ok
            THEN /\ last' = [event |-> "move-error"]
                 /\ UNCHANGED <<game, room>>
            ELSE /\ game' = r.game
                 /\ room' = IF r.game.status = "finished"
                            THEN startReplayVoting(room) ELSE room
                 /\ last' = [event |-> "game-updated", playerId |-> pid,
                             cellIndex |-> cellIndex, size |-> size]

\* the callback of setInterval(..., 1000).  timedOut is what
\* room.game.isTurnTimedOut() answers at the clock reading of the callback,
\* voteOver what Date.now() > room.replayDeadline answers.
\* It emits 'turn-skipped' with skippedPlayerId; the periodic 'timer-update'
\* is not kept in `last`.
TimerTick(timedOut, voteOver) ==
    /\ room.exists
    /\ LET cur     == getCurrentPlayer(game)
           skipped == game.status = "playing" /\ timedOut /\ cur # 0
           g1      == IF skipped THEN skipTurn(game).game ELSE game
           r1      == IF skipped /\ g1.status = "finished"
                      THEN startReplayVoting(room) ELSE room
           expired == room.replayDeadline # Null /\ voteOver
       IN  /\ game' = g1
           /\ room' = IF expired
                      THEN [r1 EXCEPT !.replayDeadline = Null,
                                      !.replayVotes = NoVotes]
                      ELSE r1
           /\ last' = IF skipped
                      THEN [event |-> "turn-skipped",
                            skippedPlayerId |-> game.currentPlayerId,
                            reason |-> "timeout"]
                      ELSE IF expired THEN [event |-> "replay-timeout"]
                      ELSE last

\* socket.on('disconnect') of a socket seated in the room: it emits
\* 'player-disconnected' and, when the leaver held the turn, 'turn-skipped'
Disconnect(pid) ==
    /\ room.exists
    /\ getPlayer(room, pid) # 0
    /\ SocketIsUp(pid)
    /\ LET i    == getPlayer(room, pid)
           r1   == [room EXCEPT !.players[i] = setConnected(@, FALSE)]
           gone == \A j \in 1..Len(r1.players) : ~r1.players[j].connected
           held == game.status = "playing" /\ game.currentPlayerId = pid
       IN  /\ last' = IF held
                      THEN [event |-> "turn-skipped", skippedPlayerId |-> pid,
                            reason |-> "disconnection"]
                      ELSE [event |-> "player-disconnected"]
           /\ IF game.status = "waiting"
              THEN LET up == {j \in 1..Len(r1.players) :
                                 r1.players[j].connected}
                       newHost == CHOOSE j \in up : \A k \in up : j <= k
                   IN  /\ room' = IF gone THEN [r1 EXCEPT !.exists = FALSE]
                                  ELSE IF r1.players[i].isHost
                                  THEN transferHostTo(r1,
                                                      r1.players[newHost].id)
                                  ELSE r1
                       /\ UNCHANGED game
              ELSE IF game.status = "playing"
              THEN LET g1 == IF held THEN skipTurn(game).game ELSE game
                       r2 == IF held /\ g1.status = "finished"
                             THEN startReplayVoting(r1) ELSE r1
                   IN  /\ game' = g1
                       /\ room' = IF gone THEN [r2 EXCEPT !.exists = FALSE]
                                  ELSE r2
              ELSE /\ room' = r1
                   /\ UNCHANGED game

\* the nickname a socket gives
nicknameOf(pid) ==
    IF pid = Stranger THEN "n0" ELSE Nicknames[findIndex(
        [i \in 1..Len(SeatIds) |-> [id |-> SeatIds[i]]], pid)]

\* socket.on('create-room') of socket pid at instant now on a server
\* without rooms: the room and its game afterwards, the creator seated
CreatedRoom(pid, capacity, now) ==
    addPlayer([room |-> Room(capacity, pid, now), game |-> NewGame],
              pid, nicknameOf(pid), TRUE, now, 1)

\* socket.on('join-room') with the id of the room and a nickname, the room
\* being public: 'join-error' to the sender, or 'player-joined' to the
\* others and 'room-joined' to the sender, followed by 'game-started' when
\* the room is full.  A filling join starts the match twice, in
\* Room.addPlayer and in the handler; randomIndex is the draw of
\* Math.random() in the second start, which replaces what the first drew.
JoinRoom(pid, randomIndex) ==
    /\ getPlayer(room, pid) = 0 \/ SocketIsUp(pid)
    /\ randomIndex \in 1..(Len(room.players) + 1)
    /\ IF ~room.exists \/ Len(room.players) >= room.capacity
       THEN /\ last' = [event |-> "join-error"]
            /\ UNCHANGED <<game, room>>
       ELSE LET a == addPlayer([room |-> room, game |-> game], pid,
                               nicknameOf(pid), TRUE, clock, 1)
                full == Len(a.room.players) = a.room.capacity
                b == IF full
                     THEN startGame([room |-> a.room, game |-> a.game],
                                    clock, randomIndex)
                     ELSE [room |-> a.room, game |-> a.game]
            IN  /\ ~full => randomIndex = 1
                /\ room' = b.room
                /\ game' = b.game
                /\ last' = [event |-> IF full THEN "game-started"
                                      ELSE "room-joined",
                            playerId |-> pid]

\* 5 * 60 * 1000 ms
cleanupInterval == 300000

\* the callback of setInterval(..., 5 * 60 * 1000): the room is deleted
\* when it has no seat or was made more than ROOM_TTL ago
RoomCleanup ==
    /\ room.exists
    /\ LET roomAge == clock - room.createdAt
           isEmpty == Len(room.players) = 0
           isExpired == roomAge > ROOM_TTL
       IN  room' = IF isEmpty \/ isExpired
                   THEN [room EXCEPT !.exists = FALSE] ELSE room
    /\ last' = [event |-> "cleanup"]
    /\ UNCHANGED game

-----------------------------------------------------------------------------
(* The environment of the room *)

PiecesOnBoard(board) ==
    Cardinality({cs \in (0..8) \X SizeSet : board[cs[1]][cs[2]] # Null})

Down(r) == Cardinality({j \in 1..Len(r.players) : ~r.players[j].connected})

\* from a fresh match, moves are sent to cell 0 and to the out-of-range
\* cells -1 and 9
FreshCells == {-1, 0, 9}

-----------------------------------------------------------------------------
(* A fresh match: the room has just been filled and started *)

\* seats that left while the room was waiting stay in room.players with
\* connected = false; the room survives while one seat is connected, and
\* the seat whose join fills the room is connected
Init ==
    \E n \in 2..MaxSeats : \E conn \in [1..n -> BOOLEAN] : \E first \in 1..n :
        /\ conn[n]
        /\ \E i \in 1..(n - 1) : conn[i]
        /\ Down(NewRoom(n, conn)) <= MaxDown
        /\ room = NewRoom(n, conn)
        /\ game = initialize(NewGame, NewRoom(n, conn).players, first)
        /\ last = [event |-> "game-started"]
        /\ clock = 0
        /\ connectionManager = NoManager
        /\ turnTimer = NoTimer
        /\ lobbyService = NoLobby
        /\ rooms = NoRooms
        /\ localGame = NoLocalGame

Next ==
    \/ \E pid \in Seated : \E cellIndex \in FreshCells : \E size \in SizeSet :
          /\ MakeMove(pid, cellIndex, size)
          /\ PiecesOnBoard(game'.board) <= MaxMoves
          /\ UNCHANGED <<clock, services, rooms, localGame>>
    \/ \E timedOut \in BOOLEAN : \E voteOver \in BOOLEAN :
          /\ TimerTick(timedOut, voteOver)
          /\ UNCHANGED <<clock, services, rooms, localGame>>
    \/ \E pid \in Seated :
          /\ Down(room) < MaxDown
          /\ Disconnect(pid)
          /\ UNCHANGED <<clock, services, rooms, localGame>>

Spec == Init /\ [][Next]_vars

-----------------------------------------------------------------------------
(* Endgames: the same handlers, from the positions a three-seat match is   *)
(* in after the moves and timeouts of an opening                           *)

Mv(pid, cellIndex, size) ==
    [op |-> "make-move", pid |-> pid, cellIndex |-> cellIndex, size |-> size]

Timeout == [op |-> "timeout"]

\* s1 starts.  s3 places two G and then lets two turns run out; s1 and s2
\* fill the cells 0..6.  Cells 7 and 8 stay empty and s2 is to move.
Opening ==
    << Mv("s1", 0, "P"), Mv("s2", 1, "P"), Mv("s3", 2, "G"),
       Mv("s1", 0, "M"), Mv("s2", 1, "M"), Mv("s3", 3, "G"),
       Mv("s1", 5, "M"), Mv("s2", 4, "M"), Timeout,
       Mv("s1", 0, "G"), Mv("s2", 1, "G"), Timeout,
       Mv("s1", 5, "G"), Mv("s2", 4, "G"),
       Mv("s1", 6, "G") >>

\* s1 starts.  s3 places its three G and then lets two turns run out; s1 and
\* s2 fill the cells 0..6 and keep one G each.  Cells 7 and 8 stay empty and
\* s1 is to move.
OpeningLastG ==
    << Mv("s1", 1, "M"), Mv("s2", 2, "P"), Mv("s3", 0, "G"),
       Mv("s1", 3, "M"), Mv("s2", 5, "P"), Mv("s3", 4, "G"),
       Mv("s1", 2, "M"), Mv("s2", 6, "P"), Mv("s3", 6, "G"),
       Mv("s1", 1, "G"), Mv("s2", 2, "G"), Timeout,
       Mv("s1", 3, "G"), Mv("s2", 5, "G"), Timeout >>

Openings == {Opening, OpeningLastG}

\* the game after the handlers have run on a list of requests
RECURSIVE Replay(_, _)
Replay(g, script) ==
    IF script = <<>> THEN g
    ELSE LET e == Head(script) IN
         Replay(IF e.op = "make-move"
                THEN applyMove(g, e.pid, e.cellIndex, e.size).game
                ELSE skipTurn(g).game,
                Tail(script))

AllCells == (0..8) \cup {-1, 9}

\* the event by which the handler of request e reports, run on game g
Reported(g, e) ==
    IF e.op = "make-move"
    THEN [event |-> "game-updated", playerId |-> e.pid,
          cellIndex |-> e.cellIndex, size |-> e.size]
    ELSE [event |-> "turn-skipped", skippedPlayerId |-> g.currentPlayerId,
          reason |-> "timeout"]

InitEndgame ==
    \E o \in Openings :
        LET r  == NewRoom(3, [i \in 1..3 |-> TRUE])
            g0 == initialize(NewGame, r.players, 1)
        IN  /\ room = r
            /\ game = Replay(g0, o)
            /\ last = Reported(Replay(g0, SubSeq(o, 1, Len(o) - 1)),
                               o[Len(o)])
            /\ clock = 0
            /\ connectionManager = NoManager
            /\ turnTimer = NoTimer
            /\ lobbyService = NoLobby
            /\ rooms = NoRooms
            /\ localGame = NoLocalGame

NextEndgame ==
    \/ \E pid \in Sockets : \E cellIndex \in AllCells : \E size \in SizeSet :
          /\ MakeMove(pid, cellIndex, size)
          /\ UNCHANGED <<clock, services, rooms, localGame>>
    \/ \E timedOut \in BOOLEAN : \E voteOver \in BOOLEAN :
          /\ TimerTick(timedOut, voteOver)
          /\ UNCHANGED <<clock, services, rooms, localGame>>
    \/ \E pid \in Seated :
          /\ Down(room) < MaxDown
          /\ Disconnect(pid)
          /\ UNCHANGED <<clock, services, rooms, localGame>>

SpecEndgame == InitEndgame /\ [][NextEndgame]_vars

\* every request of an opening was accepted and left the match running
OpeningIsPlayed ==
    \A o \in Openings : \A k \in 1..Len(o) :
        LET g == Replay(initialize(NewGame,
                           NewRoom(3, [i \in 1..3 |-> TRUE]).players, 1),
                        SubSeq(o, 1, k - 1))
            e == o[k]
        IN  /\ g.status = "playing"
            /\ IF e.op = "make-move"
               THEN /\ applyMove(g, e.pid, e.cellIndex, e.size).ok
                    /\ applyMove(g, e.pid, e.cellIndex, e.size).game.status
                          = "playing"
               ELSE skipTurn(g).game.status = "playing"

-----------------------------------------------------------------------------
(* Properties *)

\* the seat that sent the move `last` reports, as an index of game.players
Mover == findIndex(game.players, last.playerId)

\* the seats that have been eliminated, as indices of g.players
Eliminated(g) == {i \in 1..Len(g.players) : g.players[i].isEliminated}

\* one of the reasons for which a move is refused
Refused(g, pid, c, s) ==
    LET i == findIndex(g.players, pid) IN
    \/ g.status # "playing"
    \/ pid # g.currentPlayerId
    \/ i = 0
    \/ g.players[i].isEliminated
    \/ g.players[i].inventory[s] = 0
    \/ c < 0
    \/ c > 8
    \/ ~isLegalMove(g.board, c, s)

\* C1: Game.applyMove returns false and leaves board, inventories, skip
\* counters, currentPlayerId, status, winnerId and isDraw as they were
\* whenever the match is not playing, the sender is not the current player,
\* is unknown or eliminated, has no piece of that size, the cell is outside
\* 0..8 or the move is not legal on the board.
C1_RejectedMoveLeavesState ==
    \A pid \in Sockets : \A c \in AllCells : \A s \in SizeSet :
        Refused(game, pid, c, s)
            => applyMove(game, pid, c, s) = [ok |-> FALSE, game |-> game]

\* a move has just been refused in a running match in which a seat is
\* eliminated and the current seat has run out of one size
C1_Witness ==
    /\ last.event = "move-error"
    /\ game.status = "playing"
    /\ Eliminated(game) # {}
    /\ \E s \in SizeSet :
          game.players[getCurrentPlayer(game)].inventory[s] = 0

\* C2: a move of the current seat, which still holds a piece of size s, to
\* cell c is accepted if and only if 0 <= c <= 8 and the slot board[c][s] is
\* empty, whatever the other two slots of the cell hold.
C2_AcceptedIffSlotEmpty ==
    LET i == getCurrentPlayer(game) IN
    (game.status = "playing" /\ i # 0)
        => \A c \in AllCells : \A s \in SizeSet :
              (~game.players[i].isEliminated
                  /\ game.players[i].inventory[s] > 0)
              => (applyMove(game, game.currentPlayerId, c, s).ok
                    <=> (c >= 0 /\ c <= 8 /\ game.board[c][s] = Null))

\* the slots of size s that hold the colour of seat i
SlotsOf(g, i, s) == {c \in 0..8 : g.board[c][s] = g.players[i].color}

VisibleColor(cell) ==
    LET occupied == {s \in SizeSet : cell[s] # Null} IN
    IF occupied = {} THEN Null
    ELSE IF "G" \in occupied THEN cell["G"]
    ELSE IF "M" \in occupied THEN cell["M"]
    ELSE cell["P"]

\* one of the 3 rows, 3 columns and 2 diagonals shows colour k in its cells
HasLine(board, k) ==
    \E line \in { {0, 1, 2}, {3, 4, 5}, {6, 7, 8},
                  {0, 3, 6}, {1, 4, 7}, {2, 5, 8},
                  {0, 4, 8}, {2, 4, 6} } :
        \A c \in line : VisibleColor(board[c]) = k

C4_StackedTrioWins ==
    (/\ last.event = "game-updated"
     /\ last.size = "G"
     /\ \A s \in SizeSet :
           game.board[last.cellIndex][s] = game.players[Mover].color)
        => (game.status = "finished" /\ game.winnerId = last.playerId)

\* the first active seat met when the seat list is scanned cyclically from
\* just after the position of seat curId, Null when no seat is active
ScanNext(players, curId) ==
    LET n == Len(players)
        p == findIndex(players, curId)
        at(k) == ((p + k - 1) % n) + 1
        hits == {k \in 1..n : ~players[at(k)].isEliminated
                                 /\ players[at(k)].connected}
    IN  IF hits = {} THEN Null
        ELSE players[at(CHOOSE k \in hits : \A j \in hits : k <= j)].id

\* C6: whenever the turn advances, after an accepted move or a skip, the new
\* current seat is the first active seat met when scanning the seat list
\* cyclically from just after the previous current seat, also when that seat
\* has just been eliminated.
C6_TurnAdvancesCyclically ==
    [][ (game' # game /\ game.status = "playing" /\ game'.status = "playing")
          => game'.currentPlayerId
                = ScanNext(game'.players, game.currentPlayerId) ]_vars

\* C7: while a seat is disconnected, turn advancement never makes it the
\* current seat.
C7_DisconnectedNeverCurrent ==
    [][ (game'.status = "playing"
            /\ game'.currentPlayerId # game.currentPlayerId)
          => room'.players[getPlayer(room', game'.currentPlayerId)].connected
      ]_vars

\* the step is a turn that ran out, of seat x
TimedOut(x) ==
    /\ game' # game
    /\ last'.event = "turn-skipped"
    /\ last'.reason = "timeout"
    /\ last'.skippedPlayerId = x

C9_SkipLimitEliminates ==
    \A i \in 1..Len(game.players) :
        game.players[i].skipsInARow >= 2 => game.players[i].isEliminated

\* some active seat has a legal move
SomeoneCanMove(g) ==
    \E i \in 1..Len(g.players) :
        IsActive(g.players[i]) /\ hasLegalMoves(g.board, g.players[i])

-----------------------------------------------------------------------------
(* The Game object on its own, on an untouched board: seats drop out and   *)
(* turns are skipped, through the public methods of Game and of the Player *)
(* objects it holds, called in any order                                    *)

\* game.skipCurrentPlayer()
GameSkipCurrentPlayer ==
    /\ game' = skipCurrentPlayer(game)
    /\ UNCHANGED <<room, last, clock, services, rooms, localGame>>

\* game.skipTurn()
GameSkipTurn ==
    /\ game' = skipTurn(game).game
    /\ UNCHANGED <<room, last, clock, services, rooms, localGame>>

\* game.checkGameEnd()
GameCheckGameEnd ==
    /\ game' = checkGameEnd(game)
    /\ UNCHANGED <<room, last, clock, services, rooms, localGame>>

\* game.players[i].eliminate()
PlayerEliminate(i) ==
    /\ i \in 1..Len(game.players)
    /\ game' = [game EXCEPT !.players[i] = eliminate(@)]
    /\ UNCHANGED <<room, last, clock, services, rooms, localGame>>

\* game.players[i].setConnected(connected)
PlayerSetConnected(i, connected) ==
    /\ i \in 1..Len(game.players)
    /\ game' = [game EXCEPT !.players[i] = setConnected(@, connected)]
    /\ UNCHANGED <<room, last, clock, services, rooms, localGame>>

\* new Game() and game.initialize(players) on freshly made players
InitGame ==
    \E n \in 2..MaxSeats : \E first \in 1..n :
        LET r == NewRoom(n, [i \in 1..n |-> TRUE])
        IN  /\ room = r
            /\ game = initialize(NewGame, r.players, first)
            /\ last = [event |-> "game-started"]
            /\ clock = 0
            /\ connectionManager = NoManager
            /\ turnTimer = NoTimer
            /\ lobbyService = NoLobby
            /\ rooms = NoRooms
            /\ localGame = NoLocalGame

NextGame ==
    \/ GameSkipCurrentPlayer
    \/ GameSkipTurn
    \/ GameCheckGameEnd
    \/ \E i \in 1..MaxSeats : PlayerEliminate(i)
    \/ \E i \in 1..MaxSeats : \E connected \in BOOLEAN :
          PlayerSetConnected(i, connected)

SpecGame == InitGame /\ [][NextGame]_vars

\* the seats of g that are not eliminated
Uneliminated(g) == {i \in 1..Len(g.players) : ~g.players[i].isEliminated}

\* g once the skip of its current seat is counted, as skipCurrentPlayer and
\* skipTurn have it when they advance the turn
SkipCounted(g) ==
    LET c == getCurrentPlayer(g) IN
    IF c = 0 THEN g ELSE [g EXCEPT !.players[c] = skipAndEliminate(@)]

\* C11: when a skip advances the turn and no seat is active, the match
\* finishes with a definite outcome: the one uneliminated seat is winnerId
\* when there is exactly one, and isDraw is true otherwise
C11_ZeroActiveHasOutcome ==
    [][ ( /\ game.status = "playing"
          /\ game.currentPlayerId # Null
          /\ game' \in {skipCurrentPlayer(game), skipTurn(game).game}
          /\ Len(getActivePlayers(SkipCounted(game))) = 0 )
        => /\ game'.status = "finished"
           /\ IF Cardinality(Uneliminated(game')) = 1
              THEN \E i \in Uneliminated(game') :
                      game'.winnerId = game'.players[i].id
              ELSE game'.isDraw ]_vars

\* what a finished match has decided
Outcome(g) == <<g.board, g.winnerId, g.isDraw>>

\* the match as Game.skipTurn has it between its call of moveToNextPlayer
\* and its call of checkGameEnd
SkipTurnBeforeCheck(g) == moveToNextPlayer(SkipCounted(g))

\* C12: once a match is finished, no move, skip, timeout, disconnection or
\* game-end check changes its board, winnerId or isDraw: a handler that
\* finds the match finished leaves them, and so does the game-end check
\* that skipTurn runs after the turn advancement has finished the match
C12_FinishedIsImmutable ==
    [][ /\ game.status = "finished" => Outcome(game') = Outcome(game)
        /\ ( /\ game.status = "playing"
             /\ getCurrentPlayer(game) # 0
             /\ game' = skipTurn(game).game
             /\ SkipTurnBeforeCheck(game).status = "finished" )
           => Outcome(game') = Outcome(SkipTurnBeforeCheck(game)) ]_vars

-----------------------------------------------------------------------------
(* apps/server/src/services/ConnectionManager.ts, for the players of the   *)
(* one room                                                                 *)

DisconnectReasons == {"explicit", "network", "timeout"}

\* reconnectionTimeout = 5 * 60 * 1000
reconnectionTimeout == 300000

\* disconnectedPlayers.delete(playerId)
Forgotten(disconnectedPlayers, pid) ==
    [x \in DOMAIN disconnectedPlayers \ {pid} |-> disconnectedPlayers[x]]

\* variant: the limit itself is too late
timeoutExpired_atLimit(now, disconnectedAt) ==
    now - disconnectedAt >= reconnectionTimeout

\* Date.now() - disconnectedInfo.disconnectedAt > timeoutMs
timeoutExpired(now, disconnectedAt) ==
    now - disconnectedAt > reconnectionTimeout

\* connectionManager.disconnect(playerId, {reason, canReconnect}); `last`
\* keeps the value returned.  joined holds the players whose connection
\* carries the id of the room.
ManagerDisconnect(pid, reason, canReconnect) ==
    LET i == IF pid \in connectionManager.joined THEN getPlayer(room, pid)
             ELSE 0
        gameInProgress == game.status = "playing"
    IN  IF pid \notin connectionManager.connections
        THEN /\ last' = [event |-> "disconnect", wasInRoom |-> FALSE,
                         shouldForfeit |-> FALSE]
             /\ UNCHANGED <<game, room, clock, services, rooms, localGame>>
        ELSE /\ room' =
                  IF i = 0 THEN room
                  ELSE IF reason = "explicit"
                  THEN IF gameInProgress
                       THEN [room EXCEPT !.players[i] = eliminate(@)]
                       ELSE removePlayer(room, pid)
                  ELSE [room EXCEPT !.players[i] = setConnected(@, FALSE)]
             /\ connectionManager' =
                  [connections |-> connectionManager.connections \ {pid},
                   joined |-> connectionManager.joined \ {pid},
                   disconnectedPlayers |->
                      IF i # 0 /\ reason # "explicit" /\ canReconnect
                      THEN (pid :> clock) @@ connectionManager.disconnectedPlayers
                      ELSE connectionManager.disconnectedPlayers]
             /\ last' = [event |-> "disconnect",
                         wasInRoom |-> pid \in connectionManager.joined,
                         shouldForfeit |->
                            i # 0 /\ reason = "explicit" /\ gameInProgress]
             /\ UNCHANGED <<game, clock, turnTimer, lobbyService, rooms, localGame>>

\* connectionManager.reconnect(playerId, socketId).  expired is what
\* Date.now() - disconnectedAt > reconnectionTimeout answers.
ManagerReconnect(pid, expired) ==
    LET i == getPlayer(room, pid) IN
    IF pid \notin DOMAIN connectionManager.disconnectedPlayers
    THEN /\ last' = [event |-> "reconnect", playerId |-> pid,
                     success |-> FALSE]
         /\ UNCHANGED <<game, room, clock, services, rooms, localGame>>
    ELSE IF i = 0
    THEN /\ connectionManager' =
              [connectionManager EXCEPT
                 !.disconnectedPlayers = Forgotten(@, pid)]
         /\ last' = [event |-> "reconnect", playerId |-> pid,
                     success |-> FALSE]
         /\ UNCHANGED <<game, room, clock, turnTimer, lobbyService, rooms, localGame>>
    ELSE IF expired
    THEN /\ room' = IF game.status = "playing"
                    THEN [room EXCEPT !.players[i] = eliminate(@)]
                    ELSE removePlayer(room, pid)
         /\ connectionManager' =
              [connectionManager EXCEPT
                 !.disconnectedPlayers = Forgotten(@, pid)]
         /\ last' = [event |-> "reconnect", playerId |-> pid,
                     success |-> FALSE]
         /\ UNCHANGED <<game, clock, turnTimer, lobbyService, rooms, localGame>>
    ELSE \* connect() first disconnects the player explicitly, which does
         \* nothing to the room when the player holds no connection, and
         \* eliminates the seat of a playing room when it holds one
         /\ room' =
              LET r1 == [room EXCEPT !.players[i] = setConnected(@, TRUE)]
              IN  IF pid \in connectionManager.joined
                  THEN IF game.status = "playing"
                       THEN [r1 EXCEPT !.players[i] = eliminate(@)]
                       ELSE removePlayer(r1, pid)
                  ELSE r1
         /\ connectionManager' =
              [connections |-> connectionManager.connections \cup {pid},
               joined |-> connectionManager.joined \cup {pid},
               disconnectedPlayers |->
                  Forgotten(connectionManager.disconnectedPlayers, pid)]
         /\ last' = [event |-> "reconnect", playerId |-> pid,
                     success |-> TRUE]
         /\ UNCHANGED <<game, clock, turnTimer, lobbyService, rooms, localGame>>

\* connectionManager.connect(playerId, socketId), socketId being the id of
\* a socket that no connection holds: the explicit disconnect it starts
\* with acts on the room of a player whose connection carries one, and the
\* connection it makes carries none
ManagerConnect(pid) ==
    LET i == IF pid \in connectionManager.joined THEN getPlayer(room, pid)
             ELSE 0
    IN  /\ room' = IF i = 0 THEN room
                   ELSE IF game.status = "playing"
                   THEN [room EXCEPT !.players[i] = eliminate(@)]
                   ELSE removePlayer(room, pid)
        /\ connectionManager' =
              [connections |-> connectionManager.connections \cup {pid},
               joined |-> connectionManager.joined \ {pid},
               disconnectedPlayers |->
                  Forgotten(connectionManager.disconnectedPlayers, pid)]
        /\ last' = [event |-> "connect", playerId |-> pid]
        /\ UNCHANGED <<game, clock, turnTimer, lobbyService, rooms, localGame>>

\* connectionManager.joinRoom(playerId, roomId) with the id of the room
ManagerJoinRoom(pid) ==
    /\ pid \in connectionManager.connections
    /\ connectionManager' =
          [connectionManager EXCEPT !.joined = @ \cup {pid}]
    /\ last' = [event |-> "joinRoom", playerId |-> pid]
    /\ UNCHANGED <<game, room, clock, turnTimer, lobbyService, rooms, localGame>>

\* a room of n seats whose match has just started, every seat registered
\* with connect() and joinRoom()
InitConnection ==
    \E n \in 2..MaxSeats : \E first \in 1..n :
        LET r == NewRoom(n, [i \in 1..n |-> TRUE])
        IN  /\ room = r
            /\ game = initialize(NewGame, r.players, first)
            /\ last = [event |-> "game-started"]
            /\ clock = 0
            /\ connectionManager =
                  [connections |-> {SeatIds[i] : i \in 1..n},
                   joined |-> {SeatIds[i] : i \in 1..n},
                   disconnectedPlayers |-> NoManager.disconnectedPlayers]
            /\ turnTimer = NoTimer
            /\ lobbyService = NoLobby
            /\ rooms = NoRooms
            /\ localGame = NoLocalGame

NextConnection ==
    \/ \E pid \in Seated : \E reason \in DisconnectReasons :
       \E canReconnect \in BOOLEAN :
          ManagerDisconnect(pid, reason, canReconnect)
    \/ \E pid \in Seated : \E expired \in BOOLEAN :
          ManagerReconnect(pid, expired)

SpecConnection == InitConnection /\ [][NextConnection]_vars

\* C13: in a two-seat match being played, when one seat leaves explicitly
\* it is marked eliminated and the match is finished at once, the other
\* seat being winnerId and isDraw false
C13_ExplicitLeaveForfeits ==
    [][ ( /\ Len(room.players) = 2
          /\ game.status = "playing"
          /\ last'.event = "disconnect"
          /\ last'.shouldForfeit )
        => \E i \in 1..2 :
              /\ room.players[i].id \in connectionManager.connections
              /\ room.players[i].id \notin connectionManager'.connections
              /\ room'.players[i].isEliminated
              /\ game'.status = "finished"
              /\ game'.winnerId = room.players[3 - i].id
              /\ ~game'.isDraw ]_vars

\* the seats of the room whose socket is lost in the step
Dropped ==
    {i \in 1..Len(room.players) :
        /\ Len(room'.players) = Len(room.players)
        /\ room.players[i].connected
        /\ ~room'.players[i].connected}

\* C14: when the seat holding the turn loses its transport while the match
\* is played, only its connected flag changes: no seat is eliminated, no
\* skip is counted, and the turn stays with the same seat
C14_DropOfCurrentOnlyDisconnects ==
    [][ \A i \in Dropped :
          ( /\ game.status = "playing"
            /\ room.players[i].id = game.currentPlayerId )
          => /\ room'.players[i] = setConnected(room.players[i], FALSE)
             /\ game'.currentPlayerId = game.currentPlayerId
             /\ game'.status = "playing"
             /\ \A j \in 1..Len(game.players) :
                   /\ game'.players[j].isEliminated
                         = game.players[j].isEliminated
                   /\ game'.players[j].skipsInARow
                         = game.players[j].skipsInARow ]_vars

-----------------------------------------------------------------------------
(* The countdowns: Game.ts for the turn, Room.ts for the replay vote *)

\* Game.turnTimeLimit, in seconds
turnTimeLimit == 60

\* the length of the replay vote, in ms
replayWindow == 30000

\* Game.getTurnTimeLeft when Date.now() - turnStartTime is `elapsed` ms:
\* Math.floor(Math.max(0, turnTimeLimit - elapsed / 1000))
getTurnTimeLeft(g, elapsed) ==
    IF g.status # "playing" THEN 0
    ELSE IF elapsed >= turnTimeLimit * 1000 THEN 0
    ELSE (turnTimeLimit * 1000 - elapsed) \div 1000

isTurnTimedOut(g, elapsed) ==
    getTurnTimeLeft(g, elapsed) <= 0 /\ g.status = "playing"

\* Game.reset
reset(g) ==
    [g EXCEPT !.board = createEmptyBoard,
              !.currentPlayerId = Null,
              !.status = "waiting",
              !.winnerId = Null,
              !.isDraw = FALSE,
              !.players = [i \in 1..Len(g.players) |->
                             [g.players[i] EXCEPT
                                 !.inventory = [P |-> 3, M |-> 3, G |-> 3],
                                 !.skipsInARow = 0,
                                 !.isEliminated = FALSE]]]

\* variant: the deadline is not looked at
castReplayVote_noDeadline(r, playerId, vote, late) ==
    LET i == getPlayer(r, playerId) IN
    IF r.replayDeadline = Null
    THEN [ok |-> FALSE, room |-> r]
    ELSE IF i = 0 \/ ~r.players[i].connected
    THEN [ok |-> FALSE, room |-> r]
    ELSE [ok |-> TRUE,
          room |-> [r EXCEPT !.replayVotes =
                       [x \in (DOMAIN r.replayVotes) \cup {playerId} |->
                           IF x = playerId THEN vote ELSE r.replayVotes[x]]]]

\* Room.castReplayVote: the value returned and the room afterwards.
\* late is what Date.now() > replayDeadline answers.
castReplayVote(r, playerId, vote, late) ==
    LET i == getPlayer(r, playerId) IN
    IF r.replayDeadline = Null \/ late
    THEN [ok |-> FALSE, room |-> r]
    ELSE IF i = 0 \/ ~r.players[i].connected
    THEN [ok |-> FALSE, room |-> r]
    ELSE [ok |-> TRUE,
          room |-> [r EXCEPT !.replayVotes =
                       [x \in (DOMAIN r.replayVotes) \cup {playerId} |->
                           IF x = playerId THEN vote ELSE r.replayVotes[x]]]]

\* the ids of the players of the room that are connected
connectedPlayers(r) ==
    {r.players[i].id : i \in {j \in 1..Len(r.players) : r.players[j].connected}}

\* variant: one positive vote is enough
checkReplayVotes_anyPositive(r, late) ==
    IF r.replayDeadline = Null THEN "rejected"
    ELSE IF late THEN "rejected"
    ELSE IF ~(connectedPlayers(r) \subseteq DOMAIN r.replayVotes)
    THEN "pending"
    ELSE IF \E x \in connectedPlayers(r) : r.replayVotes[x]
    THEN "accepted"
    ELSE "rejected"

\* Room.checkReplayVotes
checkReplayVotes(r, late) ==
    IF r.replayDeadline = Null THEN "rejected"
    ELSE IF late THEN "rejected"
    ELSE IF ~(connectedPlayers(r) \subseteq DOMAIN r.replayVotes)
    THEN "pending"
    ELSE IF \A x \in connectedPlayers(r) : r.replayVotes[x]
    THEN "accepted"
    ELSE "rejected"

\* variant: the expiry of the room is left as it was
replay_keepsExpiry(r, now) ==
    [r EXCEPT !.replayVotes = NoVotes, !.replayDeadline = Null]

\* Room.replay: the room afterwards; the game is re-made by
\* initialize(reset(game), room.players, randomIndex)
replay(r, now) ==
    resetTTL([r EXCEPT !.replayVotes = NoVotes, !.replayDeadline = Null], now)

\* socket.on('cast-replay-vote') with a well-formed vote: 'replay-vote-error'
\* to the sender, or 'replay-vote-updated' to the room, followed by
\* 'game-restarted' or 'replay-rejected' when the vote is complete.
\* late is what Date.now() > room.replayDeadline answers in the handler,
\* randomIndex what Math.random() draws if the match restarts.
CastReplayVote(pid, vote, late, randomIndex) ==
    /\ SocketIsUp(pid)
    /\ randomIndex \in 1..Len(room.players)
    /\ IF ~room.exists
       THEN /\ last' = [event |-> "replay-vote-error"]
            /\ UNCHANGED <<game, room>>
       ELSE LET c == castReplayVote(room, pid, vote, late)
                voteResult == checkReplayVotes(c.room, late)
            IN  IF ~c.ok
                THEN /\ last' = [event |-> "replay-vote-error"]
                     /\ UNCHANGED <<game, room>>
                ELSE IF voteResult = "accepted"
                THEN /\ game' = initialize(reset(game), c.room.players,
                                           randomIndex)
                     /\ room' = replay(c.room, clock)
                     /\ last' = [event |-> "game-restarted"]
                ELSE /\ room' = c.room
                     /\ last' = IF voteResult = "rejected"
                                THEN [event |-> "replay-rejected"]
                                ELSE [event |-> "replay-vote-updated"]
                     /\ UNCHANGED game

\* the instants, in ms since the countdown started, at which the handlers
\* are observed: around the end of the turn while a match is played, around
\* the end of the vote once it is finished
Instants ==
    IF game.status = "playing"
    THEN {turnTimeLimit * 1000 + d : d \in {-1000, -500, 0}}
    ELSE {replayWindow + d : d \in {-500, 0, 500}}

\* time passes
Elapse(t) ==
    /\ room.exists
    /\ game.status = "playing" \/ room.replayDeadline # Null
    /\ t \in Instants
    /\ t > clock
    /\ clock' = t
    /\ UNCHANGED <<game, room, last, services, rooms, localGame>>

\* startTurn() and startReplayVoting() read Date.now(): a handler that
\* changes the game starts a countdown
Restart == clock' = IF game' # game THEN 0 ELSE clock

-----------------------------------------------------------------------------
(* A fresh match with the clock running *)

InitClock ==
    /\ Init
    /\ Down(room) = 0

NextClock ==
    \/ \E pid \in Seated : \E cellIndex \in FreshCells : \E size \in SizeSet :
          /\ MakeMove(pid, cellIndex, size)
          /\ PiecesOnBoard(game'.board) <= MaxMoves
          /\ Restart
          /\ UNCHANGED <<services, rooms, localGame>>
    \/ /\ TimerTick(isTurnTimedOut(game, clock), clock > replayWindow)
       /\ Restart
       /\ UNCHANGED <<services, rooms, localGame>>
    \/ \E pid \in Seated :
          /\ Down(room) < MaxDown
          /\ Disconnect(pid)
          /\ Restart
          /\ UNCHANGED <<services, rooms, localGame>>
    \/ \E t \in Instants :
          /\ game.status = "playing"
          /\ Elapse(t)

SpecClock == InitClock /\ [][NextClock]_vars

\* C15: a turn is skipped for timeout only once 60 000 ms have passed since
\* it started, and once they have passed no move is accepted for that turn
C15_SkipAtSixtySeconds ==
    [][ /\ ( /\ game' # game
             /\ last'.event = "turn-skipped"
             /\ last'.reason = "timeout" )
           => clock >= turnTimeLimit * 1000
        /\ ( /\ game' # game
             /\ last'.event = "game-updated" )
           => clock <= turnTimeLimit * 1000 ]_vars

-----------------------------------------------------------------------------
(* The replay vote: a match that every turn ran out of has just finished   *)
(* and opened its vote                                                      *)

\* the match at the last of its turns, when every turn runs out
RECURSIVE LastTurn(_)
LastTurn(g) ==
    IF skipTurn(g).game.status # "playing" THEN g
    ELSE LastTurn(skipTurn(g).game)

\* the turns that ran out in the match
TurnsOf(players) ==
    LET sum[i \in 0..Len(players)] ==
            IF i = 0 THEN 0 ELSE players[i].skipsInARow + sum[i - 1]
    IN  sum[Len(players)]

\* instant 0 is the opening of the vote: the room was filled and its TTL
\* reset when the match started, a turn of 60 s ago for each turn played
InitVote ==
    \E n \in 2..MaxSeats : \E first \in 1..n :
        LET r == NewRoom(n, [i \in 1..n |-> TRUE])
            g == LastTurn(initialize(NewGame, r.players, first))
        IN  /\ game = skipTurn(g).game
            /\ LET began == 0 - TurnsOf(game.players) * turnTimeLimit * 1000
               IN  room = startReplayVoting(
                             [resetTTL(r, began) EXCEPT !.createdAt = began])
            /\ last = [event |-> "turn-skipped",
                       skippedPlayerId |-> g.currentPlayerId,
                       reason |-> "timeout"]
            /\ clock = 0
            /\ connectionManager = NoManager
            /\ turnTimer = NoTimer
            /\ lobbyService = NoLobby
            /\ rooms = NoRooms
            /\ localGame = NoLocalGame

\* the vote on the finished match, up to the restart it may lead to
NextVote ==
    \/ \E pid \in Seated : \E vote \in BOOLEAN : \E randomIndex \in 1..MaxSeats :
          /\ game.status = "finished"
          /\ CastReplayVote(pid, vote, clock > replayWindow, randomIndex)
          /\ Restart
          /\ UNCHANGED <<services, rooms, localGame>>
    \/ /\ game.status = "finished"
       /\ TimerTick(isTurnTimedOut(game, clock), clock > replayWindow)
       /\ Restart
       /\ UNCHANGED <<services, rooms, localGame>>
    \/ \E pid \in Seated :
          /\ game.status = "finished"
          /\ Down(room) < MaxDown
          /\ Disconnect(pid)
          /\ Restart
          /\ UNCHANGED <<services, rooms, localGame>>
    \/ \E t \in Instants :
          /\ game.status = "finished"
          /\ Elapse(t)

SpecVote == InitVote /\ [][NextVote]_vars

\* the ids of the seats of the room
SeatsOf(r) == {r.players[i].id : i \in 1..Len(r.players)}

VoteMaps(r) == UNION {[S -> BOOLEAN] : S \in SUBSET SeatsOf(r)}

\* C18: the voters of a replay vote are the seats connected when it opened:
\* a seat that disconnects while the vote is open changes nothing in what
\* the votes cast decide
C18_VotersFixedAtOpening ==
    [][ ( /\ room.replayDeadline # Null
          /\ room'.replayDeadline # Null
          /\ game.status = "finished"
          /\ Dropped # {} )
        => \A V \in VoteMaps(room) :
              checkReplayVotes([room' EXCEPT !.replayVotes = V], FALSE)
                 = checkReplayVotes([room EXCEPT !.replayVotes = V], FALSE)
      ]_vars

\* C19: once a replay vote has ended rejected or expired, no later vote
\* starts a new match
C19_RejectedVoteStaysRejected ==
    [][ last.event \in {"replay-rejected", "replay-timeout"}
        => last'.event # "game-restarted" ]_vars

\* C20: when the window of the vote has passed with a voter missing, the
\* vote expires and no match starts, whatever votes were cast; a vote sent
\* after the deadline is refused and leaves the votes as they were
C20_ExpiredVoteStartsNothing ==
    [][ ( /\ room.exists
          /\ room.replayDeadline # Null
          /\ clock > replayWindow )
        => /\ game' = game
           /\ last'.event # "game-restarted"
           /\ \A pid \in Seated : \A vote \in BOOLEAN :
              \A randomIndex \in 1..MaxSeats :
                 CastReplayVote(pid, vote, TRUE, randomIndex)
                 => /\ last'.event = "replay-vote-error"
                    /\ room' = room
           /\ ( TimerTick(FALSE, TRUE) /\ clock' = clock )
              => /\ last'.event = "replay-timeout"
                 /\ room'.replayDeadline = Null
                 /\ room'.replayVotes = NoVotes ]_vars

\* C20 witness: the window passed while a true vote was in and a voter was
\* missing, and the timer has closed the vote without a new match
C20_Witness ==
    /\ last.event = "replay-timeout"
    /\ game.status = "finished"
    /\ room.replayDeadline = Null
    /\ clock > replayWindow
    /\ Down(room) = 0

-----------------------------------------------------------------------------
(* apps/server/src/services/TurnTimer.ts, for the one room.  The operators *)
(* take and return the state [game, room, turnTimer]; turnTimer.timerStates *)
(* is the playerId of the active timer state and turnTimer.startTime its    *)
(* startTime, turnTimer.timers the set of playerIds whose handleTimeout     *)
(* callback is pending, turnTimer.warnings the warning callbacks pending,   *)
(* each with the playerId and the instant of the startTimer that armed it   *)

\* defaultOptions.timeoutMs
timeoutMs == 60000

\* the time left at which the warning is due
warningLead == 10000

\* TurnTimer.stopTimer: clearTimeout, and the state deleted; the warning
\* callbacks stay
stopTimer(st) ==
    [st EXCEPT !.turnTimer.timerStates = Null,
               !.turnTimer.startTime = 0,
               !.turnTimer.timers = {}]

\* TurnTimer.startTimer at instant now
startTimer(st, playerId, now) ==
    LET i == getPlayer(st.room, playerId) IN
    IF st.game.status # "playing" THEN st
    ELSE IF i = 0 THEN st
    ELSE IF st.room.players[i].isEliminated \/ ~st.room.players[i].connected
    THEN st
    ELSE [st EXCEPT !.turnTimer =
             [timerStates |-> playerId,
              startTime   |-> now,
              timers      |-> {playerId},
              warnings    |-> IF timeoutMs > warningLead
                              THEN @.warnings \cup
                                      {[playerId |-> playerId,
                                        startTime |-> now]}
                              ELSE @.warnings]]

\* TurnTimer.hasActiveTimer
hasActiveTimer(st) == st.turnTimer.timerStates # Null

\* TurnTimer.skipPlayerTurn, with antiAbuseEnabled false as constructed
skipPlayerTurn(st, playerId, now) ==
    LET i == getPlayer(st.room, playerId) IN
    IF st.game.status # "playing" THEN st
    ELSE LET s1 == [st EXCEPT !.room.players[i] = incrementSkips(@),
                              !.game = skipCurrentPlayer(st.game)]
         IN  IF s1.game.status = "playing" /\ getCurrentPlayer(s1.game) # 0
             THEN startTimer(s1, s1.game.currentPlayerId, now)
             ELSE s1

\* TurnTimer.handleTimeout, the callback armed by startTimer for playerId
handleTimeout(st, playerId, now) ==
    IF st.turnTimer.timerStates = Null
       \/ st.turnTimer.timerStates # playerId
    THEN st
    ELSE IF getPlayer(st.room, playerId) = 0 THEN stopTimer(st)
    ELSE skipPlayerTurn(stopTimer(st), playerId, now)

\* TurnTimer.onPlayerMove
onPlayerMove(st, playerId) ==
    LET i == getPlayer(st.room, playerId) IN
    stopTimer(IF i = 0 THEN st
              ELSE [st EXCEPT !.room.players[i] = resetSkips(@)])

\* TurnTimer.onGameStateChange
onGameStateChange(st, now) ==
    IF st.game.status # "playing" THEN stopTimer(st)
    ELSE IF getCurrentPlayer(st.game) # 0 /\ ~hasActiveTimer(st)
    THEN startTimer(st, st.game.currentPlayerId, now)
    ELSE st

\* the state the operators work on, and the step to a state they return
Now == [game |-> game, room |-> room, turnTimer |-> turnTimer]

Becomes(st) ==
    /\ game' = st.game
    /\ room' = st.room
    /\ turnTimer' = st.turnTimer

\* a move is played: game.applyMove, then the hooks onPlayerMove and
\* onGameStateChange
TimedMove(pid, cellIndex, size) ==
    LET r == applyMove(game, pid, cellIndex, size) IN
    /\ r.ok
    /\ Becomes(onGameStateChange(
                  onPlayerMove([Now EXCEPT !.game = r.game], pid), clock))
    /\ last' = [event |-> "move", playerId |-> pid]
    /\ UNCHANGED <<clock, connectionManager, lobbyService, rooms, localGame>>

\* the server skips the turn of the current seat with game.skipTurn, as
\* index.ts does when that seat disconnects, then calls the hook
\* onGameStateChange
TimedSkip ==
    /\ skipTurn(game).ok
    /\ Becomes(onGameStateChange([Now EXCEPT !.game = skipTurn(game).game],
                                 clock))
    /\ last' = [event |-> "skip", playerId |-> game.currentPlayerId]
    /\ UNCHANGED <<clock, connectionManager, lobbyService, rooms, localGame>>

\* the setTimeout callback armed for pid runs
TimeoutFires(pid) ==
    /\ pid \in turnTimer.timers
    /\ Becomes(handleTimeout([Now EXCEPT !.turnTimer.timers = @ \ {pid}],
                             pid, clock))
    /\ last' = [event |-> "timeout", playerId |-> pid]
    /\ UNCHANGED <<clock, connectionManager, lobbyService, rooms, localGame>>

\* a room whose match has just started, and the timer started for the seat
\* that holds the turn
InitTurnTimer ==
    \E n \in 2..MaxSeats : \E first \in 1..n :
        LET r  == NewRoom(n, [i \in 1..n |-> TRUE])
            g  == initialize(NewGame, r.players, first)
            st == startTimer([game |-> g, room |-> r, turnTimer |-> NoTimer],
                             g.currentPlayerId, 0)
        IN  /\ room = r
            /\ game = g
            /\ turnTimer = st.turnTimer
            /\ lobbyService = NoLobby
            /\ rooms = NoRooms
            /\ localGame = NoLocalGame
            /\ last = [event |-> "game-started"]
            /\ clock = 0
            /\ connectionManager = NoManager

NextTurnTimer ==
    \/ \E pid \in Seated : \E cellIndex \in FreshCells : \E size \in SizeSet :
          /\ TimedMove(pid, cellIndex, size)
          /\ PiecesOnBoard(game'.board) <= MaxMoves
    \/ TimedSkip
    \/ \E pid \in Seated : TimeoutFires(pid)

SpecTurnTimer == InitTurnTimer /\ [][NextTurnTimer]_vars

\* C16: a timeout armed for a turn that has ended, by a move, by a skip or
\* by the end of the match, causes no skip: when it fires after the turn
\* has changed or after the timer was stopped, the skip counters, the
\* eliminations and the current seat stay as they were
C16_StaleTimeoutIsIgnored ==
    [][ \A pid \in Seated :
          ( /\ TimeoutFires(pid)
            /\ \/ pid # game.currentPlayerId
               \/ game.status # "playing"
               \/ turnTimer.timerStates = Null )
          => /\ game' = game
             /\ room' = room ]_vars

-----------------------------------------------------------------------------
(* The match an accepted replay starts *)

\* a seat as new as a seat is at the start of a match
FreshSeat(p) ==
    /\ p.inventory = [P |-> 3, M |-> 3, G |-> 3]
    /\ p.skipsInARow = 0
    /\ ~p.isEliminated

-----------------------------------------------------------------------------
(* A room from its creation: joins, lost sockets and the periodic cleanup  *)
(* of index.ts, on the clock of the server                                  *)

MaxSweeps == 13

\* time passes from one run of the cleanup to a later one; a room that a
\* run in between deletes does not get there
Wait(t) ==
    /\ room.exists
    /\ t \in {k * cleanupInterval : k \in 1..MaxSweeps}
    /\ t > clock
    /\ ~(Len(room.players) = 0)
    /\ ~(t - cleanupInterval - room.createdAt > ROOM_TTL)
    /\ clock' = t
    /\ UNCHANGED <<game, room, last, services, rooms, localGame>>

\* socket s1 has just made a public room of 2..MaxSeats seats
InitJoin ==
    \E capacity \in 2..MaxSeats :
        LET c == CreatedRoom(SeatIds[1], capacity, 0)
        IN  /\ room = c.room
            /\ game = c.game
            /\ last = [event |-> "room-created"]
            /\ clock = 0
            /\ connectionManager = NoManager
            /\ turnTimer = NoTimer
            /\ lobbyService = NoLobby
            /\ rooms = NoRooms
            /\ localGame = NoLocalGame

\* sockets are numbered in the order in which they first ask to join
NewSocket ==
    LET unseated == {i \in 1..MaxSeats : getPlayer(room, SeatIds[i]) = 0}
    IN  IF unseated = {} THEN Stranger
        ELSE SeatIds[CHOOSE i \in unseated : \A j \in unseated : i <= j]

NextJoin ==
    \/ \E pid \in Sockets : \E randomIndex \in 1..MaxSeats :
          /\ getPlayer(room, pid) # 0 \/ pid = NewSocket
          /\ JoinRoom(pid, randomIndex)
          /\ UNCHANGED <<clock, services, rooms, localGame>>
    \/ \E pid \in Sockets :
          /\ Down(room) < MaxDown
          /\ Disconnect(pid)
          /\ UNCHANGED <<clock, services, rooms, localGame>>
    \/ /\ RoomCleanup
       /\ UNCHANGED <<clock, services, rooms, localGame>>
    \/ \E k \in 1..MaxSweeps : Wait(k * cleanupInterval)

SpecJoin == InitJoin /\ [][NextJoin]_vars

\* the join of the step added a seat
SeatAdded == Len(room'.players) = Len(room.players) + 1

\* C22: a join that adds the seat filling the room starts a match in the
\* same step (playing, a seat of the room holding the turn, the room
\* expiring one TTL later); a join that adds a seat and leaves the room
\* short of its capacity leaves it waiting
C22_FillingJoinStartsMatch ==
    [][ /\ last'.event \in {"game-started", "room-joined"}
        /\ SeatAdded
        => IF Len(room'.players) = room.capacity
           THEN /\ game'.status = "playing"
                /\ game'.currentPlayerId \in SeatsOf(room')
                /\ Len(game'.players) = room.capacity
                /\ room'.expiresAt = clock + ROOM_TTL
           ELSE /\ game'.status = "waiting"
                /\ game' = game ]_vars

\* C22 witness: a room of three seats filled some time after it was made
C22_Witness ==
    /\ last.event = "game-started"
    /\ room.capacity = 3
    /\ Len(room.players) = 3
    /\ game.status = "playing"
    /\ room.expiresAt > room.createdAt + ROOM_TTL

\* C24: a join is reported as done ('player-joined', 'room-joined',
\* 'game-started') only for a socket that held no seat of the room, and a
\* join of a socket that holds one adds no seat
C24_SeatedJoinerIsRefused ==
    [][ last'.event \in {"game-started", "room-joined"}
        => getPlayer(room, last'.playerId) = 0 /\ SeatAdded ]_vars

\* C25: when the socket of a seat closes while the room waits, the seat is
\* no longer in the list of the seats of the room: a seat that was
\* connected is afterwards still connected or gone
C25_LeaverFreesItsSeat ==
    [][ /\ game.status = "waiting"
        /\ last'.event = "player-disconnected"
        /\ room'.exists
        => \A i \in 1..Len(room.players) :
              LET j == getPlayer(room', room.players[i].id)
              IN  room.players[i].connected
                     => j = 0 \/ room'.players[j].connected ]_vars

\* C29: a run of the periodic cleanup removes the room exactly when its
\* expiresAt is earlier than the instant of the run; in particular a room
\* whose match started less than ROOM_TTL ago is kept
C29_SweepRemovesExactlyExpired ==
    [][ RoomCleanup /\ clock' = clock
        => (room'.exists <=> ~(room.expiresAt < clock)) ]_vars

-----------------------------------------------------------------------------
(* apps/server/src/services/LobbyService.ts *)

\* the ids that uuidv4() gives to the rooms
RoomIds == <<"r1", "r2">>

\* Map.delete
Without(map, key) == [x \in DOMAIN map \ {key} |-> map[x]]

\* Map.set
With(map, key, value) == (key :> value) @@ map

\* the largest capacity createRoom accepts
maxCapacity == 4

\* lobbyService.createRoom({name, hostId, capacity, isPrivate: false}) on
\* the lobby l at instant now, roomId being the id of the new room:
\* whether it returns a room (it throws otherwise), and the lobby afterwards
createRoom(l, hostId, capacity, roomId, now) ==
    IF capacity < 2 \/ capacity > maxCapacity \/ hostId \in DOMAIN l.roomsByHost
    THEN [success |-> FALSE, lobby |-> l]
    ELSE [success |-> TRUE,
          lobby |-> [rooms |-> With(l.rooms, roomId,
                                    [room |-> Room(capacity, hostId, now),
                                     game |-> NewGame]),
                     roomsByHost |-> With(l.roomsByHost, hostId, roomId)]]

\* lobbyService.removeRoom(roomId)
removeRoom(l, roomId) ==
    IF roomId \notin DOMAIN l.rooms THEN l
    ELSE [rooms |-> Without(l.rooms, roomId),
          roomsByHost |-> Without(l.roomsByHost, l.rooms[roomId].room.hostId)]

\* variant: the state of the match is not looked at
joinRoom_anyStatus(l, roomId, playerId, now, randomIndex) ==
    IF roomId \notin DOMAIN l.rooms
    THEN [success |-> FALSE, lobby |-> l]
    ELSE LET st == l.rooms[roomId]
             a == addPlayer(st, playerId, nicknameOf(playerId), TRUE, now,
                            randomIndex)
         IN  IF hasExpired(st.room, now)
             THEN [success |-> FALSE, lobby |-> removeRoom(l, roomId)]
             ELSE IF isFull(st.room)
                     \/ getPlayer(st.room, playerId) # 0
                     \/ ~a.ok
             THEN [success |-> FALSE, lobby |-> l]
             ELSE [success |-> TRUE,
                   lobby |-> [l EXCEPT !.rooms[roomId] =
                                 [room |-> a.room, game |-> a.game]]]

\* lobbyService.joinRoom(roomId, new Player({id, nickname})) on a public
\* room: the success of the value returned, and the lobby afterwards
joinRoom(l, roomId, playerId, now, randomIndex) ==
    IF roomId \notin DOMAIN l.rooms
    THEN [success |-> FALSE, lobby |-> l]
    ELSE LET st == l.rooms[roomId]
             a == addPlayer(st, playerId, nicknameOf(playerId), TRUE, now,
                            randomIndex)
         IN  IF hasExpired(st.room, now)
             THEN [success |-> FALSE, lobby |-> removeRoom(l, roomId)]
             ELSE IF isFull(st.room)
                     \/ st.game.status # "waiting"
                     \/ getPlayer(st.room, playerId) # 0
                     \/ ~a.ok
             THEN [success |-> FALSE, lobby |-> l]
             ELSE [success |-> TRUE,
                   lobby |-> [l EXCEPT !.rooms[roomId] =
                                 [room |-> a.room, game |-> a.game]]]

\* lobbyService.leaveRoom(roomId, playerId)
leaveRoom(l, roomId, playerId) ==
    IF roomId \notin DOMAIN l.rooms
    THEN [success |-> FALSE, lobby |-> l]
    ELSE LET st == l.rooms[roomId]
             wasHost == st.room.hostId = playerId
             r1 == removePlayer(st.room, playerId)
             g1 == IF st.game.status = "playing" THEN checkGameEnd(st.game)
                   ELSE st.game
             byHost == IF ~wasHost THEN l.roomsByHost
                       ELSE IF r1.hostId # playerId
                       THEN With(Without(l.roomsByHost, playerId),
                                 r1.hostId, roomId)
                       ELSE Without(l.roomsByHost, playerId)
             l1 == [rooms |-> [l.rooms EXCEPT ![roomId] =
                                  [room |-> r1, game |-> g1]],
                    roomsByHost |-> byHost]
         IN  IF getPlayer(st.room, playerId) = 0
             THEN [success |-> FALSE, lobby |-> l]
             ELSE IF Len(r1.players) = 0
             THEN [success |-> TRUE, lobby |-> removeRoom(l1, roomId)]
             ELSE [success |-> TRUE, lobby |-> l1]

\* a call of createRoom by hostId; roomId is the id that the new room
\* gets, one that no room has
LobbyCreateRoom(hostId, capacity, roomId) ==
    /\ roomId \notin DOMAIN lobbyService.rooms
    /\ LET c == createRoom(lobbyService, hostId, capacity, roomId, clock)
       IN  /\ lobbyService' = c.lobby
           /\ last' = [event |-> "createRoom", success |-> c.success]
    /\ UNCHANGED <<game, room, clock, connectionManager, turnTimer, rooms, localGame>>

\* a call of joinRoom; randomIndex is what Math.random() draws if the
\* join fills the room
LobbyJoinRoom(roomId, playerId, randomIndex) ==
    /\ roomId \in DOMAIN lobbyService.rooms
          => /\ randomIndex <= Len(lobbyService.rooms[roomId].room.players) + 1
             /\ Len(lobbyService.rooms[roomId].room.players) + 1
                   # lobbyService.rooms[roomId].room.capacity
                => randomIndex = 1
    /\ roomId \notin DOMAIN lobbyService.rooms => randomIndex = 1
    /\ LET j == joinRoom(lobbyService, roomId, playerId, clock, randomIndex)
       IN  /\ lobbyService' = j.lobby
           /\ last' = [event |-> "joinRoom", success |-> j.success]
    /\ UNCHANGED <<game, room, clock, connectionManager, turnTimer, rooms, localGame>>

\* a call of leaveRoom
LobbyLeaveRoom(roomId, playerId) ==
    /\ LET v == leaveRoom(lobbyService, roomId, playerId)
       IN  /\ lobbyService' = v.lobby
           /\ last' = [event |-> "leaveRoom", success |-> v.success]
    /\ UNCHANGED <<game, room, clock, connectionManager, turnTimer, rooms, localGame>>

\* a call of removeRoom
LobbyRemoveRoom(roomId) ==
    /\ lobbyService' = removeRoom(lobbyService, roomId)
    /\ last' = [event |-> "removeRoom",
                success |-> roomId \in DOMAIN lobbyService.rooms]
    /\ UNCHANGED <<game, room, clock, connectionManager, turnTimer, rooms, localGame>>

\* new LobbyService(); the server of index.ts holds no room
InitLobby ==
    /\ lobbyService = NoLobby
    /\ rooms = NoRooms
    /\ localGame = NoLocalGame
    /\ room = [Room(2, Stranger, 0) EXCEPT !.exists = FALSE]
    /\ game = NewGame
    /\ last = [event |-> "new", success |-> TRUE]
    /\ clock = 0
    /\ connectionManager = NoManager
    /\ turnTimer = NoTimer

\* the players of the lobby
Visitors == {SeatIds[i] : i \in 1..Len(SeatIds)}

\* a lobby in which one room at a time is open; the lobby is empty when
\* a room is made, and the player who makes it is called the first
NextLobby ==
    \/ \E capacity \in 2..maxCapacity :
          LobbyCreateRoom(SeatIds[1], capacity, RoomIds[1])
    \/ \E playerId \in Visitors : \E randomIndex \in 1..maxCapacity :
          LobbyJoinRoom(RoomIds[1], playerId, randomIndex)
    \/ \E playerId \in Visitors : LobbyLeaveRoom(RoomIds[1], playerId)
    \/ LobbyRemoveRoom(RoomIds[1])

SpecLobby == InitLobby /\ [][NextLobby]_vars

\* the two players of the registry
Hosts == {SeatIds[1], SeatIds[2]}

\* a lobby of two players in which two rooms can be open
NextRegistry ==
    \/ \E hostId \in Hosts : \E capacity \in 2..MaxSeats :
       \E k \in 1..Len(RoomIds) :
          /\ \A j \in 1..(k - 1) : RoomIds[j] \in DOMAIN lobbyService.rooms
          /\ LobbyCreateRoom(hostId, capacity, RoomIds[k])
    \/ \E k \in 1..Len(RoomIds) : \E playerId \in Hosts :
       \E randomIndex \in 1..MaxSeats :
          LobbyJoinRoom(RoomIds[k], playerId, randomIndex)
    \/ \E k \in 1..Len(RoomIds) : \E playerId \in Hosts :
          LobbyLeaveRoom(RoomIds[k], playerId)
    \/ \E k \in 1..Len(RoomIds) : LobbyRemoveRoom(RoomIds[k])

SpecRegistry == InitLobby /\ [][NextRegistry]_vars

\* the rooms of the lobby before and after the step
RoomsNow == DOMAIN lobbyService.rooms

RoomsNext == DOMAIN lobbyService'.rooms

\* the colours of the seats of a room
ColorsOf(r) == {r.players[i].color : i \in 1..Len(r.players)}

\* C23: a call of joinRoom leaves every room whose match is not waiting as
\* it was, seats and match, and with a single room open the call fails
C23_JoinRefusedOnceStarted ==
    [][ last'.event = "joinRoom"
        => \A roomId \in RoomsNow :
              lobbyService.rooms[roomId].game.status # "waiting"
                 => /\ roomId \in RoomsNext
                    /\ lobbyService'.rooms[roomId] = lobbyService.rooms[roomId]
                    /\ ~last'.success ]_vars

\* C23 witness: a join refused on a room that is being played and that a
\* seat has left, so that it is not full
C23_Witness ==
    /\ last = [event |-> "joinRoom", success |-> FALSE]
    /\ RoomIds[1] \in RoomsNow
    /\ LET st == lobbyService.rooms[RoomIds[1]]
       IN  /\ st.game.status = "playing"
           /\ Len(st.room.players) < st.room.capacity

\* C26: when the seat named by hostId leaves a waiting room in which
\* other seats remain, the first of the remaining seats, and no other, is
\* host afterwards, and hostId names it
C26_HostPassesToEarliest ==
    [][ \A roomId \in RoomsNow \cap RoomsNext :
          LET r == lobbyService.rooms[roomId].room
              q == lobbyService'.rooms[roomId].room
              i == getPlayer(r, r.hostId)
              rest == SelectSeq(r.players, LAMBDA p : p.id # r.hostId)
          IN  /\ last'.event = "leaveRoom"
              /\ lobbyService.rooms[roomId].game.status = "waiting"
              /\ i # 0
              /\ Len(r.players) >= 2
              /\ SeatsOf(q) = SeatsOf(r) \ {r.hostId}
              => /\ q.hostId = rest[1].id
                 /\ Len(q.players) = Len(rest)
                 /\ \A j \in 1..Len(q.players) :
                       /\ q.players[j].id = rest[j].id
                       /\ q.players[j].isHost <=> j = 1 ]_vars

\* C26 witness: a waiting room of two seats or more whose first seat is
\* the host and joined after the seat that had the first colour
C26_Witness ==
    /\ last = [event |-> "leaveRoom", success |-> TRUE]
    /\ RoomIds[1] \in RoomsNow
    /\ LET st == lobbyService.rooms[RoomIds[1]]
       IN  /\ st.game.status = "waiting"
           /\ Len(st.room.players) >= 2
           /\ st.room.players[1].isHost
           /\ st.room.hostId = st.room.players[1].id
           /\ st.room.players[1].color # availableColors[1]

\* C27: the seats of a room have colours that differ, and a seat that
\* joins gets the first colour of the palette that no seat of the room had
C27_ColorsAreDistinct ==
    [][ \A roomId \in RoomsNext :
          LET q == lobbyService'.rooms[roomId].room
              n == Len(q.players)
          IN  /\ \A i \in 1..n : \A j \in 1..n :
                    i # j => q.players[i].color # q.players[j].color
              /\ ( /\ roomId \in RoomsNow
                    /\ n = Len(lobbyService.rooms[roomId].room.players) + 1 )
                 => LET used == ColorsOf(lobbyService.rooms[roomId].room)
                    IN  \E k \in 1..Len(availableColors) :
                           /\ q.players[n].color = availableColors[k]
                           /\ availableColors[k] \notin used
                           /\ \A l \in 1..(k - 1) :
                                 availableColors[l] \in used ]_vars

\* C27 witness: a seat has joined a room whose first colour was free again
\* while its second colour was taken
C27_Witness ==
    /\ last = [event |-> "joinRoom", success |-> TRUE]
    /\ RoomIds[1] \in RoomsNow
    /\ LET r == lobbyService.rooms[RoomIds[1]].room
       IN  /\ Len(r.players) >= 2
           /\ r.players[1].color = availableColors[2]
           /\ r.players[Len(r.players)].color = availableColors[1]

\* C28: no two rooms of the lobby have the same hostId, and createRoom
\* makes a room only for a host who was the host of no room
C28_OneRoomPerHost ==
    [][ /\ \A a \in RoomsNext : \A b \in RoomsNext :
              a # b => lobbyService'.rooms[a].room.hostId
                          # lobbyService'.rooms[b].room.hostId
        /\ last'.event = "createRoom"
              => \A a \in RoomsNext \ RoomsNow : \A b \in RoomsNow :
                    lobbyService'.rooms[a].room.hostId
                       # lobbyService.rooms[b].room.hostId ]_vars

-----------------------------------------------------------------------------
(* Reconnection on the clock: the disconnections ConnectionManager keeps,   *)
(* its reconnection timeout and its periodic cleanup                        *)

MaxGraces == 1

\* time passes up to a multiple of the reconnection timeout, or one
\* millisecond beyond it
ManagerWait(d) ==
    /\ d = 1 => clock % reconnectionTimeout = 0
    /\ clock + d <= MaxGraces * reconnectionTimeout + 1
    /\ clock' = clock + d
    /\ last' = [event |-> "wait"]
    /\ UNCHANGED <<game, room, services, rooms, localGame>>

\* connectionManager.cleanupExpiredDisconnections(), run every minute
cleanupExpiredDisconnections ==
    LET dp == connectionManager.disconnectedPlayers
        expired == {pid \in DOMAIN dp : timeoutExpired(clock, dp[pid])}
        left[k \in 0..Len(SeatIds)] ==
            IF k = 0 THEN room
            ELSE IF SeatIds[k] \in expired
                    /\ getPlayer(left[k - 1], SeatIds[k]) # 0
                 THEN removePlayer(left[k - 1], SeatIds[k])
                 ELSE left[k - 1]
    IN  /\ expired # {}
        /\ room' =
              IF game.status = "playing"
              THEN [room EXCEPT !.players = [i \in 1..Len(@) |->
                       IF @[i].id \in expired THEN eliminate(@[i])
                                               ELSE @[i]]]
              ELSE left[Len(SeatIds)]
        /\ connectionManager' =
              [connectionManager EXCEPT !.disconnectedPlayers =
                  [x \in DOMAIN dp \ expired |-> dp[x]]]
        /\ last' = [event |-> "cleanup", expired |-> Cardinality(expired)]
        /\ UNCHANGED <<game, clock, turnTimer, lobbyService, rooms, localGame>>

NextReconnect ==
    \/ \E pid \in Seated : \E reason \in DisconnectReasons :
       \E canReconnect \in BOOLEAN :
          /\ Down(room) < MaxDown
          /\ ManagerDisconnect(pid, reason, canReconnect)
    \/ \E pid \in Seated :
          ManagerReconnect(pid,
             /\ pid \in DOMAIN connectionManager.disconnectedPlayers
             /\ timeoutExpired(clock,
                               connectionManager.disconnectedPlayers[pid]))
    \/ cleanupExpiredDisconnections
    \/ \E d \in {1, reconnectionTimeout} : ManagerWait(d)

SpecReconnect == InitConnection /\ [][NextReconnect]_vars

\* seat i of the room has lost its transport and tries to reconnect
Attempt(i) ==
    /\ room.exists
    /\ ~room.players[i].connected
    /\ last'.event = "reconnect"
    /\ last'.playerId = room.players[i].id
    /\ clock' = clock

\* the instant at which a seat lost its transport: the one recorded, and
\* for a seat without a record the earliest possible one
LostAt(pid) ==
    IF pid \in DOMAIN connectionManager.disconnectedPlayers
    THEN connectionManager.disconnectedPlayers[pid]
    ELSE 0

\* the room, the match and the turn timer after seat i has got its
\* transport back: the connected flag of the seat, nothing else
Restored(i) ==
    /\ room' = [room EXCEPT !.players[i].connected = TRUE]
    /\ game' = game
    /\ turnTimer' = turnTimer

-----------------------------------------------------------------------------
(* The outcome and the turn of a match                                      *)

\* C35: no match is a draw and has a winner at once
C35_DrawHasNoWinner ==
    ~(game.isDraw /\ game.winnerId # Null)

\* the step advances the turn: an accepted move or a skipped turn
TurnAdvanced ==
    /\ game.status = "playing"
    /\ game' # game
    /\ last'.event \in {"game-updated", "turn-skipped"}

\* the seats whose skips were counted in the step
SkippedIn ==
    {j \in 1..Len(game.players) :
        game'.players[j].skipsInARow > game.players[j].skipsInARow}

\* the current seat of g is active and has a legal move
CurrentCanPlay(g) ==
    LET c == getCurrentPlayer(g) IN
    /\ c # 0
    /\ IsActive(g.players[c])
    /\ hasLegalMoves(g.board, g.players[c])

-----------------------------------------------------------------------------
(* The turn timer in a room whose seats can lose their socket               *)

\* a seat of the room loses its socket: player.setConnected(false) on the
\* Player of the room, then the hook turnTimer.onPlayerDisconnected, which
\* leaves the timer running
TimedDisconnect(pid) ==
    /\ getPlayer(room, pid) # 0
    /\ room.players[getPlayer(room, pid)].connected
    /\ room' = [room EXCEPT
                   !.players[getPlayer(room, pid)] = setConnected(@, FALSE)]
    /\ last' = [event |-> "disconnected", playerId |-> pid]
    /\ UNCHANGED <<game, clock, services, rooms, localGame>>

NextTimedRoom ==
    \/ NextTurnTimer
    \/ \E pid \in Seated :
          /\ Down(room) < MaxDown
          /\ TimedDisconnect(pid)

SpecTimedRoom == InitTurnTimer /\ [][NextTimedRoom]_vars

\* C33: when the timeout of the running timer has been handled and the
\* match is still playing, the timer is running for the seat that now
\* holds the turn and its timeout is pending
C33_TimerArmedAfterTimeout ==
    [][ \A pid \in Seated :
          ( /\ TimeoutFires(pid)
            /\ turnTimer.timerStates = pid
            /\ game'.status = "playing" )
          => /\ turnTimer'.timerStates = game'.currentPlayerId
             /\ game'.currentPlayerId \in turnTimer'.timers ]_vars

\* C34: a step of a match being played that leaves fewer than two active
\* seats leaves the match finished, and when the step is a skipped turn
\* the one active seat left, if there is one, is the winner
C34_LoneSeatEndsMatch ==
    [][ ( /\ game.status = "playing"
          /\ game' # game
          /\ Len(getActivePlayers(game')) < 2 )
        => /\ game'.status = "finished"
           /\ ( /\ last'.event \in {"skip", "timeout", "turn-skipped"}
                /\ Len(getActivePlayers(game')) = 1 )
              => game'.winnerId = getActivePlayers(game')[1].id ]_vars

-----------------------------------------------------------------------------
(* The colour of a seat in its room and in the match                        *)

\* C36: in every room of the lobby whose match has started, a seat of the
\* room has in the match the colour it has in the room
C36_SeatKeepsItsColor ==
    \A roomId \in DOMAIN lobbyService.rooms :
       LET st == lobbyService.rooms[roomId] IN
       st.game.status # "waiting"
          => \A i \in 1..Len(st.room.players) :
             \A j \in 1..Len(st.game.players) :
                st.room.players[i].id = st.game.players[j].id
                   => st.room.players[i].color = st.game.players[j].color

-----------------------------------------------------------------------------
(* The turn timer on the clock: the callbacks of setTimeout run at the      *)
(* instant they were armed for, and instants are multiples of 10 s          *)

MaxTimedMoves == 2

MaxInstants == 6

\* the instant at which a warning callback is due
DueAt(w) == w.startTime + timeoutMs - warningLead

\* 10 s pass, no callback being due
Elapse10 ==
    /\ clock + warningLead <= MaxInstants * warningLead
    /\ \A w \in turnTimer.warnings : DueAt(w) > clock
    /\ turnTimer.timers # {} => turnTimer.startTime + timeoutMs > clock
    /\ clock' = clock + warningLead
    /\ UNCHANGED <<game, room, last, services, rooms, localGame>>

\* the warning callback armed by startTimer runs: it emits 'warning' when
\* the timer state of the room is active and names its player
WarningFires(w) ==
    /\ w \in turnTimer.warnings
    /\ turnTimer' = [turnTimer EXCEPT !.warnings = @ \ {w}]
    /\ last' = IF turnTimer.timerStates # Null
                  /\ turnTimer.timerStates = w.playerId
               THEN [event |-> "warning", playerId |-> w.playerId]
               ELSE [event |-> "silent", playerId |-> w.playerId]
    /\ UNCHANGED <<game, room, clock, connectionManager, lobbyService, rooms, localGame>>

NextWarning ==
    \/ \E pid \in Seated : \E cellIndex \in FreshCells : \E size \in SizeSet :
          /\ TimedMove(pid, cellIndex, size)
          /\ PiecesOnBoard(game'.board) <= MaxTimedMoves
    \/ TimedSkip
    \/ \E pid \in Seated :
          /\ clock = turnTimer.startTime + timeoutMs
          /\ TimeoutFires(pid)
    \/ \E w \in turnTimer.warnings :
          /\ clock = DueAt(w)
          /\ WarningFires(w)
    \/ Elapse10

SpecWarning == InitTurnTimer /\ [][NextWarning]_vars

\* C38: a warning is emitted only by the callback of the timer that is
\* active, for the player of that timer, when that timer has 10 s left
C38_WarningOnlyFromLiveTimer ==
    [][ \A w \in turnTimer.warnings :
          WarningFires(w) /\ last'.event = "warning"
          => /\ turnTimer.timerStates = w.playerId
             /\ turnTimer.startTime = w.startTime
             /\ turnTimer.startTime + timeoutMs - clock = warningLead ]_vars

-----------------------------------------------------------------------------
(* apps/server/src/index.ts with several rooms: one socket may ask for any  *)
(* number of rooms.  A room that rooms.delete removed stays in the map with *)
(* exists = FALSE, as the one room does.                                    *)

\* a socket emits only while it is connected: its seats say so
SocketUp(pid) ==
    \A roomId \in DOMAIN rooms :
       LET r == rooms[roomId].room
       IN  getPlayer(r, pid) # 0 => r.players[getPlayer(r, pid)].connected

\* socket.on('create-room') of socket pid, roomId being the id drawn for
\* the room: the room is stored with its creator seated
SocketCreateRoom(pid, capacity, roomId) ==
    /\ SocketUp(pid)
    /\ roomId \notin DOMAIN rooms
    /\ LET c == CreatedRoom(pid, capacity, clock)
       IN  rooms' = With(rooms, roomId, [room |-> c.room, game |-> c.game])
    /\ last' = [event |-> "room-created", playerId |-> pid,
                roomId |-> roomId]
    /\ UNCHANGED <<game, room, clock, services, localGame>>

\* socket.on('join-room') of socket pid with the id of a room, as
\* JoinRoom does it for the one room
SocketJoinRoom(roomId, pid, randomIndex) ==
    /\ SocketUp(pid)
    /\ IF roomId \notin DOMAIN rooms
       THEN /\ randomIndex = 1
            /\ last' = [event |-> "join-error"]
            /\ UNCHANGED rooms
       ELSE LET st == rooms[roomId] IN
            /\ randomIndex \in 1..(Len(st.room.players) + 1)
            /\ IF ~st.room.exists
                  \/ Len(st.room.players) >= st.room.capacity
               THEN /\ randomIndex = 1
                    /\ last' = [event |-> "join-error"]
                    /\ UNCHANGED rooms
               ELSE LET a == addPlayer(st, pid, nicknameOf(pid), TRUE,
                                       clock, 1)
                        full == Len(a.room.players) = a.room.capacity
                        b == IF full
                             THEN startGame([room |-> a.room,
                                             game |-> a.game],
                                            clock, randomIndex)
                             ELSE [room |-> a.room, game |-> a.game]
                    IN  /\ ~full => randomIndex = 1
                        /\ rooms' = With(rooms, roomId, b)
                        /\ last' = [event |-> IF full THEN "game-started"
                                              ELSE "room-joined",
                                    playerId |-> pid, roomId |-> roomId]
    /\ UNCHANGED <<game, room, clock, services, localGame>>

\* the body of the loop of socket.on('disconnect') for one room of the map
\* in which the socket has a seat: the room and its game afterwards
disconnectIn(st, pid) ==
    LET i    == getPlayer(st.room, pid)
        r1   == [st.room EXCEPT !.players[i] = setConnected(@, FALSE)]
        gone == \A j \in 1..Len(r1.players) : ~r1.players[j].connected
        held == st.game.status = "playing" /\ st.game.currentPlayerId = pid
        up   == {j \in 1..Len(r1.players) : r1.players[j].connected}
    IN  IF st.game.status = "waiting"
        THEN [room |-> IF gone THEN [r1 EXCEPT !.exists = FALSE]
                       ELSE IF r1.players[i].isHost
                       THEN transferHostTo(r1,
                               r1.players[CHOOSE j \in up :
                                             \A k \in up : j <= k].id)
                       ELSE r1,
              game |-> st.game]
        ELSE IF st.game.status = "playing"
        THEN LET g1 == IF held THEN skipTurn(st.game).game ELSE st.game
                 r2 == IF held /\ g1.status = "finished"
                       THEN startReplayVoting(r1) ELSE r1
             IN  [room |-> IF gone THEN [r2 EXCEPT !.exists = FALSE] ELSE r2,
                  game |-> g1]
        ELSE [room |-> r1, game |-> st.game]

\* socket.on('disconnect') of socket pid: every room of the map in which
\* it has a seat is handled
SocketDisconnect(pid) ==
    /\ SocketUp(pid)
    /\ \E roomId \in DOMAIN rooms : getPlayer(rooms[roomId].room, pid) # 0
    /\ rooms' = [roomId \in DOMAIN rooms |->
                    IF rooms[roomId].room.exists
                       /\ getPlayer(rooms[roomId].room, pid) # 0
                    THEN disconnectIn(rooms[roomId], pid)
                    ELSE rooms[roomId]]
    /\ last' = [event |-> "player-disconnected", playerId |-> pid]
    /\ UNCHANGED <<game, room, clock, services, localGame>>

\* the server has just started: no room, no match
InitRooms ==
    /\ game = NewGame
    /\ room = [Room(2, Null, 0) EXCEPT !.exists = FALSE]
    /\ last = [event |-> "listening"]
    /\ clock = 0
    /\ connectionManager = NoManager
    /\ turnTimer = NoTimer
    /\ lobbyService = NoLobby
    /\ rooms = NoRooms
    /\ localGame = NoLocalGame

\* the sockets that are followed
MaxSockets == 2

NextRooms ==
    \E i \in 1..MaxSockets :
       \/ \E capacity \in 2..MaxSeats :
             \* room ids are numbered in the order in which they are drawn
             /\ Cardinality(DOMAIN rooms) < Len(RoomIds)
             /\ SocketCreateRoom(SeatIds[i], capacity,
                                 RoomIds[Cardinality(DOMAIN rooms) + 1])
       \/ \E k \in 1..Len(RoomIds) : \E randomIndex \in 1..MaxSeats :
             SocketJoinRoom(RoomIds[k], SeatIds[i], randomIndex)
       \/ SocketDisconnect(SeatIds[i])

SpecRooms == InitRooms /\ [][NextRooms]_vars

\* the seats that socket pid holds in the rooms of the map
SeatsOfSocket(pid) ==
    {<<roomId, i>> \in (DOMAIN rooms) \X (1..maxCapacity) :
        /\ rooms[roomId].room.exists
        /\ i <= Len(rooms[roomId].room.players)
        /\ rooms[roomId].room.players[i].id = pid}

\* C31: a socket holds at most one seat in the rooms of the server, and a
\* seat has at most one connected socket: the one whose id it carries
C31_OneSeatPerSocket ==
    \A i \in 1..MaxSockets :
       SocketUp(SeatIds[i]) => Cardinality(SeatsOfSocket(SeatIds[i])) <= 1

-----------------------------------------------------------------------------
(* ConnectionManager with connect() and joinRoom() called at any time       *)

NextSockets ==
    \/ NextConnection
    \/ \E pid \in Seated : ManagerConnect(pid)
    \/ \E pid \in Seated : ManagerJoinRoom(pid)

SpecSockets == InitConnection /\ [][NextSockets]_vars

\* C37: connect() for a player who holds a connection leaves the room as it
\* is: the seat of the player is neither eliminated nor removed, and the
\* player still holds a connection
C37_ConnectKeepsTheSeat ==
    [][ \A pid \in Seated :
          ( /\ pid \in connectionManager.connections
            /\ last'.event = "connect"
            /\ last'.playerId = pid )
          => /\ room' = room
             /\ game' = game
             /\ pid \in connectionManager'.connections ]_vars

-----------------------------------------------------------------------------
(* The match played on one screen: class Game of                            *)
(* packages/shared/src/game-logic.ts, driven by the hook                    *)
(* apps/client/src/hooks/useLocalGame.ts                                    *)

\* new Game(players), for 2 to 4 players
SharedGame(players) ==
    [ board           |-> createEmptyBoard,
      players         |-> players,
      currentPlayerId |-> players[1].id,
      status          |-> "playing",
      winnerId        |-> Null,
      isDraw          |-> FALSE ]

\* Game.applyMove({position, piece: {size, color}}) of the shared class:
\* the message of the error thrown, Null when none is, and the game
\* afterwards.  i is the index of getCurrentPlayer(), 0 for null.
sharedApplyMove(g, position, size, color) ==
    LET i == findIndex(g.players, g.currentPlayerId) IN
    IF g.status # "playing"
    THEN [error |-> "Game is not in playing state", game |-> g]
    ELSE IF i = 0
    THEN [error |-> "No current player", game |-> g]
    ELSE IF g.players[i].color # color
    THEN [error |-> "Not your turn", game |-> g]
    ELSE IF g.players[i].inventory[size] <= 0
    THEN [error |-> "No pieces available", game |-> g]
    ELSE IF ~isLegalMove(g.board, position, size)
    THEN [error |-> "Illegal move", game |-> g]
    ELSE
      LET g1 == [g EXCEPT !.board[position][size] = color,
                          !.players[i].inventory[size] = @ - 1]
          nextPlayer == getNextPlayer(g1.players, g1.currentPlayerId)
      IN  IF checkWinConditions(g1.board, color)
          THEN [error |-> Null,
                game |-> [g1 EXCEPT !.status = "finished",
                                    !.winnerId = g.players[i].id]]
          ELSE IF isDraw(g1.board, g1.players)
          THEN [error |-> Null,
                game |-> [g1 EXCEPT !.status = "finished",
                                    !.isDraw = TRUE]]
          ELSE [error |-> Null,
                game |-> IF nextPlayer # Null
                         THEN [g1 EXCEPT !.currentPlayerId = nextPlayer]
                         ELSE g1]

\* startLocalGame(playerCount), the players being
\* new Player(`Joueur ${i + 1}`, colors[i]) for i < playerCount
startLocalGame(playerCount) ==
    LET players == [i \in 1..playerCount |->
                      Player(SeatIds[i], Nicknames[i], availableColors[i],
                             TRUE, FALSE)]
    IN
    [ game          |-> SharedGame(players),
      players       |-> players,
      selectedPiece |-> NoLocalGame.selectedPiece,
      error         |-> Null ]

\* selectPiece(size, color) on the state st of the hook
selectPiece(st, size, color) ==
    IF st.game = NoLocalGame.game THEN st
    ELSE LET i == findIndex(st.game.players, st.game.currentPlayerId) IN
         IF i = 0 \/ st.game.players[i].color # color
         THEN [st EXCEPT !.error = "Ce n'est pas votre tour"]
         ELSE IF st.game.players[i].inventory[size] <= 0
         THEN [st EXCEPT !.error = "Plus de pieces disponibles"]
         ELSE [st EXCEPT !.selectedPiece = [size |-> size, color |-> color],
                         !.error = Null]

\* placePiece(position) on the state st of the hook
placePiece(st, position) ==
    IF st.game = NoLocalGame.game \/ st.selectedPiece = NoLocalGame.selectedPiece
    THEN [st EXCEPT !.error = "Aucune piece selectionnee"]
    ELSE LET a == sharedApplyMove(st.game, position, st.selectedPiece.size,
                                  st.selectedPiece.color)
         IN  IF a.error = Null
             THEN [st EXCEPT !.game = a.game, !.selectedPiece = NoLocalGame.selectedPiece,
                             !.error = Null]
             ELSE [st EXCEPT !.error = a.error]

\* deselectPiece() on the state st of the hook
deselectPiece(st) ==
    [st EXCEPT !.selectedPiece = NoLocalGame.selectedPiece, !.error = Null]

\* red and blue put one piece in each of the cells 0..6, red first: the
\* size picked and the cell, move by move
LocalOpening ==
    << <<"G", 0>>, <<"G", 1>>, <<"G", 2>>, <<"G", 4>>,
       <<"M", 3>>, <<"G", 5>>, <<"M", 7>> >>

\* the state of the hook after the player to move has, for each entry of
\* the script, selected the piece and placed it
RECURSIVE Played(_, _)
Played(st, script) ==
    IF script = <<>> THEN st
    ELSE LET e == Head(script)
             i == findIndex(st.game.players, st.game.currentPlayerId)
         IN  Played(placePiece(selectPiece(st, e[1],
                                           st.game.players[i].color),
                               e[2]),
                    Tail(script))

\* the pieces that may be put down after the opening
MaxLocalMoves == 2

\* a match of two players started with startLocalGame(2), after the
\* opening; blue, whose turn it is, has picked an M
InitLocal ==
    /\ localGame = selectPiece(Played(startLocalGame(2), LocalOpening),
                               "M", availableColors[2])
    /\ game = NewGame
    /\ room = [Room(2, Null, 0) EXCEPT !.exists = FALSE]
    /\ last = [event |-> "local"]
    /\ clock = 0
    /\ connectionManager = NoManager
    /\ turnTimer = NoTimer
    /\ lobbyService = NoLobby
    /\ rooms = NoRooms

NextLocal ==
    \/ \E size \in SizeSet : \E k \in 1..2 :
          /\ localGame' = selectPiece(localGame, size, availableColors[k])
          /\ UNCHANGED <<game, room, last, clock, services, rooms>>
    \/ \E position \in 0..8 :
          /\ localGame' = placePiece(localGame, position)
          /\ PiecesOnBoard(localGame'.game.board)
                <= Len(LocalOpening) + MaxLocalMoves
          /\ UNCHANGED <<game, room, last, clock, services, rooms>>
    \/ /\ localGame' = deselectPiece(localGame)
       /\ UNCHANGED <<game, room, last, clock, services, rooms>>

SpecLocal == InitLocal /\ [][NextLocal]_vars

\* C39: while the match on one screen is being played, the player whose
\* turn it is has a piece left that some cell takes
C39_LocalCurrentCanMove ==
    localGame.game.status = "playing"
    => LET g == localGame.game
           i == findIndex(g.players, g.currentPlayerId)
       IN  i # 0 /\ hasLegalMoves(g.board, g.players[i])

=============================================================================
